---- MODULE Spec2Model ----
(***************************************************************************)
(* A model of gs-convert: the Apple IIgs ".3200" packer and unpacker       *)
(* (format_writer.py), the 8-bit <-> 4-bit colour conversion (color.py),   *)
(* the median-cut quantizer and the palette-assignment strategies          *)
(* (quantize.py, pipeline.py).                                             *)
(*                                                                         *)
(* Geometry.  The real container is 200 rows x 160 bytes, 200 SCB bytes,   *)
(* 56 bytes of padding and 16 palettes x 16 colours x 2 bytes.  The model  *)
(* keeps the layout arithmetic of the code and scales the five sizes down  *)
(* (HEIGHT, BYTES_PER_LINE, SCB_PAD, NUM_PALETTES, NUM_COLORS); nibble and *)
(* byte widths, and the 0..255 channel range, are kept as in the code.     *)
(***************************************************************************)
EXTENDS Integers, Sequences, FiniteSets, TLC

\* ------------------------------------------------------------------ sizes
\* rows of the canvas (200 in the code)
HEIGHT == 3
\* bytes of pixel data per row (160 in the code); two pixels per byte
BYTES_PER_LINE == 1
\* padding after the SCB bytes (56 in the code: 256 - 200)
SCB_PAD == 1
\* palette slots of the container and ceiling of the strategies (16 in the code)
NUM_PALETTES == 2
\* colours per palette (16 in the code)
NUM_COLORS == 2

\* pixels of a row handed to the quantizer (320 in the pipeline)
SCAN_WIDTH == 3
\* longest pixel bag and largest colour count of a direct median_cut_quantize call
MaxPixels == 4
MaxColors == 3

WIDTH == 2 * BYTES_PER_LINE
PIXEL_BYTES == HEIGHT * BYTES_PER_LINE
SCB_OFFSET == PIXEL_BYTES
SCB_END == SCB_OFFSET + HEIGHT
PALETTE_OFFSET == SCB_END + SCB_PAD
PALETTE_BYTES == NUM_PALETTES * NUM_COLORS * 2
FILE_SIZE == PALETTE_OFFSET + PALETTE_BYTES

\* ---------------------------------------------------------- bit operations
\* Python's | and & on non-negative integers.
RECURSIVE BitOr(_, _)
BitOr(a, b) ==
    IF a = 0 THEN b
    ELSE IF b = 0 THEN a
    ELSE (IF a % 2 = 1 \/ b % 2 = 1 THEN 1 ELSE 0) + 2 * BitOr(a \div 2, b \div 2)

RECURSIVE BitAnd(_, _)
BitAnd(a, b) ==
    IF a = 0 \/ b = 0 THEN 0
    ELSE (IF a % 2 = 1 /\ b % 2 = 1 THEN 1 ELSE 0) + 2 * BitAnd(a \div 2, b \div 2)

\* s[i] with Python's 0-based index
At(s, i) == s[i + 1]

\* s[a:b] for 0 <= a <= b <= len(s)
Slice(s, a, b) == SubSeq(s, a + 1, b)

\* bytearray slice assignment  data[a:b] = v : the slice is REPLACED by v, so the
\* bytearray grows or shrinks when len(v) # b - a
SliceAssign(data, a, b, v) == SubSeq(data, 1, a) \o v \o SubSeq(data, b + 1, Len(data))

Zeros(n) == [i \in 1..n |-> 0]

RECURSIVE Flatten(_)
Flatten(ss) == IF ss = <<>> THEN <<>> ELSE Head(ss) \o Flatten(Tail(ss))

\* ------------------------------------------------------------ color.py
\* int(r / 255.0 * 15 + 0.5): for r in 0..255 the float expression equals
\* floor((30 r + 255) / 510) (round half up of r * 15 / 255).
Nibble4Truncating(v) == (v * 15) \div 255
Nibble4(v) == (30 * v + 255) \div 510

rgb24_to_iigs12(rgb) ==
    LET r4 == Nibble4(rgb[1])
        g4 == Nibble4(rgb[2])
        b4 == Nibble4(rgb[3])
    IN  BitOr(BitOr(b4 * 256, g4 * 16), r4)

\* int(r4 / 15.0 * 255): the float expression is exact for r4 in 0..15
Scale8Shift(n) == n * 16
Scale8(n) == (n * 255) \div 15

iigs12_to_rgb24(color) ==
    LET r4 == BitAnd(color, 15)
        g4 == BitAnd(color \div 16, 15)
        b4 == BitAnd(color \div 256, 15)
    IN  <<Scale8(r4), Scale8(g4), Scale8(b4)>>

\* ------------------------------------------------------ format_writer.py
\* shape of a 2-D array held as a sequence of rows
Shape2(a) == <<Len(a), IF Len(a) = 0 THEN 0 ELSE Len(a[1])>>

\* ndarray.tobytes() of a 1-D unsigned array: itemsize little-endian bytes per item
RECURSIVE LEBytes(_, _)
LEBytes(v, n) == IF n = 0 THEN <<>> ELSE <<v % 256>> \o LEBytes(v \div 256, n - 1)

tobytes(arr) == Flatten([i \in 1..Len(arr.vals) |-> LEBytes(arr.vals[i], arr.itemsize)])

pack_pixel_dataSwapped(pixel_indices) ==
    [i \in 1..PIXEL_BYTES |->
        LET y == (i - 1) \div BYTES_PER_LINE
            x == 2 * ((i - 1) % BYTES_PER_LINE)
            pixel0 == BitAnd(pixel_indices[y + 1][x + 1], 15)
            pixel1 == BitAnd(pixel_indices[y + 1][x + 2], 15)
        IN  BitOr(pixel0 * 16, pixel1)]

pack_pixel_data(pixel_indices) ==
    [i \in 1..PIXEL_BYTES |->
        LET y == (i - 1) \div BYTES_PER_LINE
            x == 2 * ((i - 1) % BYTES_PER_LINE)
            pixel0 == BitAnd(pixel_indices[y + 1][x + 1], 15)
            pixel1 == BitAnd(pixel_indices[y + 1][x + 2], 15)
        IN  BitOr(pixel1 * 16, pixel0)]

pack_palette_dataBigEndian(pals) ==
    Flatten([s \in 1..(NUM_PALETTES * NUM_COLORS) |->
        LET palette_idx == (s - 1) \div NUM_COLORS
            color_idx == (s - 1) % NUM_COLORS
            color_12bit ==
                IF palette_idx < Len(pals) /\ color_idx < Len(pals[palette_idx + 1])
                THEN rgb24_to_iigs12(pals[palette_idx + 1][color_idx + 1])
                ELSE 0
        IN  <<BitAnd(color_12bit \div 256, 255), BitAnd(color_12bit, 255)>>])

pack_palette_data(pals) ==
    Flatten([s \in 1..(NUM_PALETTES * NUM_COLORS) |->
        LET palette_idx == (s - 1) \div NUM_COLORS
            color_idx == (s - 1) % NUM_COLORS
            color_12bit ==
                IF palette_idx < Len(pals) /\ color_idx < Len(pals[palette_idx + 1])
                THEN rgb24_to_iigs12(pals[palette_idx + 1][color_idx + 1])
                ELSE 0
        IN  <<BitAnd(color_12bit, 255), BitAnd(color_12bit \div 256, 255)>>])

WriteAcceptsAnyPaletteCount(pix, scb, pals) ==
    /\ Shape2(pix) = <<HEIGHT, WIDTH>>
    /\ Len(scb.vals) = HEIGHT

\* the three precondition checks of write_3200_file
WriteAccepts(pix, scb, pals) ==
    /\ Shape2(pix) = <<HEIGHT, WIDTH>>
    /\ Len(scb.vals) = HEIGHT
    /\ Len(pals) <= NUM_PALETTES

\* the bytes write_3200_file hands to write_bytes
FileBytes(pix, scb, pals) ==
    LET d0 == Zeros(FILE_SIZE)
        d1 == SliceAssign(d0, 0, PIXEL_BYTES, pack_pixel_data(pix))
        d2 == SliceAssign(d1, SCB_OFFSET, SCB_END, tobytes(scb))
    IN  SliceAssign(d2, PALETTE_OFFSET, FILE_SIZE, pack_palette_data(pals))

unpack_pixel_dataUnmasked(data) ==
    [y \in 1..HEIGHT |->
        [x \in 1..WIDTH |->
            LET byte == At(data, (y - 1) * BYTES_PER_LINE + ((x - 1) \div 2))
            IN  IF (x - 1) % 2 = 0 THEN byte
                ELSE BitAnd(byte \div 16, 15)]]

unpack_pixel_data(data) ==
    [y \in 1..HEIGHT |->
        [x \in 1..WIDTH |->
            LET byte == At(data, (y - 1) * BYTES_PER_LINE + ((x - 1) \div 2))
            IN  IF (x - 1) % 2 = 0 THEN BitAnd(byte, 15)
                ELSE BitAnd(byte \div 16, 15)]]

unpack_palette_data(data) ==
    [p \in 1..NUM_PALETTES |->
        [c \in 1..NUM_COLORS |->
            LET offset == ((p - 1) * NUM_COLORS + (c - 1)) * 2
                color_12bit == BitOr(At(data, offset), At(data, offset + 1) * 256)
            IN  iigs12_to_rgb24(color_12bit)]]

\* what read_3200_file returns for a blob of the right size
ReadResult(data) ==
    [pixel_indices |-> unpack_pixel_data(Slice(data, 0, PIXEL_BYTES)),
     scb_bytes |-> Slice(data, SCB_OFFSET, SCB_END),
     palettes |-> unpack_palette_data(Slice(data, PALETTE_OFFSET, FILE_SIZE))]

\* ------------------------------------------------------------ quantize.py
\* Pixels and palette entries are uint8 triples <<r, g, b>>.  A bucket is held as
\* a bag (colour |-> number of pixels): argsort() in _median_cut_split uses
\* numpy's default, unstable sort, so the order of pixels with equal keys inside
\* a bucket is not determined by the code, and only the bag is.
SeqRange(s) == {s[i] : i \in DOMAIN s}

EmptyBucket == [c \in {} |-> 0]

BagOf(pixels) ==
    [c \in SeqRange(pixels) |-> Cardinality({i \in DOMAIN pixels : pixels[i] = c})]

\* sum over the colours c of S of b[c] * w, w = 1 (ch = 0) or c[ch]
RECURSIVE BagSum(_, _, _)
BagSum(b, S, ch) ==
    IF S = {} THEN 0
    ELSE LET c == CHOOSE x \in S : TRUE
         IN  b[c] * (IF ch = 0 THEN 1 ELSE c[ch]) + BagSum(b, S \ {c}, ch)

\* len(bucket)
BagSize(b) == BagSum(b, DOMAIN b, 0)

SetMax(S) == CHOOSE m \in S : \A x \in S : x <= m
SetMin(S) == CHOOSE m \in S : \A x \in S : m <= x

\* bucket.max(axis=0) - bucket.min(axis=0)
ChannelRanges(b) ==
    [ch \in 1..3 |->
        LET vs == {c[ch] : c \in DOMAIN b} IN SetMax(vs) - SetMin(vs)]

_get_color_range(b) ==
    IF BagSize(b) = 0 THEN 0
    ELSE LET r == ChannelRanges(b) IN r[1] + r[2] + r[3]

\* the first bucket (1-based) whose range is the greatest
_find_largest_bucket(buckets) ==
    CHOOSE i \in DOMAIN buckets :
        /\ \A j \in DOMAIN buckets : _get_color_range(buckets[j]) <= _get_color_range(buckets[i])
        /\ \A j \in 1..(i - 1) : _get_color_range(buckets[j]) < _get_color_range(buckets[i])

\* ranges.argmax(): the first channel (1-based) of greatest range
ArgMaxChannel(r) ==
    CHOOSE ch \in 1..3 :
        /\ \A o \in 1..3 : r[o] <= r[ch]
        /\ \A o \in 1..(ch - 1) : r[o] < r[ch]

\* drop the colours a bag holds zero times
Compact(b) == [c \in {x \in DOMAIN b : b[x] > 0} |-> b[c]]

_median_cut_splitUpperMedian(b) ==
    IF BagSize(b) <= 1 THEN {<<b, EmptyBucket>>}
    ELSE
        LET split_channel == ArgMaxChannel(ChannelRanges(b))
            n == BagSize(b)
            mid == (n + 1) \div 2
            Below(k) == BagSum(b, {c \in DOMAIN b : c[split_channel] < k}, 0)
            UpTo(k) == BagSum(b, {c \in DOMAIN b : c[split_channel] <= k}, 0)
            \* the key of sorted_bucket[mid]
            m == CHOOSE k \in {c[split_channel] : c \in DOMAIN b} : Below(k) <= mid /\ mid < UpTo(k)
            Tie == {c \in DOMAIN b : c[split_channel] = m}
            t == mid - Below(m)
            Takes == {f \in [Tie -> 0..t] :
                        /\ \A c \in Tie : f[c] <= b[c]
                        /\ BagSum(f, Tie, 0) = t}
        IN  {<<Compact([c \in DOMAIN b |->
                    IF c[split_channel] < m THEN b[c]
                    ELSE IF c[split_channel] = m THEN f[c] ELSE 0]),
               Compact([c \in DOMAIN b |->
                    IF c[split_channel] < m THEN 0
                    ELSE IF c[split_channel] = m THEN b[c] - f[c] ELSE b[c]])>> :
             f \in Takes}

_median_cut_splitAtZero(b) ==
    IF BagSize(b) <= 1 THEN {<<b, EmptyBucket>>}
    ELSE
        LET split_channel == ArgMaxChannel(ChannelRanges(b))
            n == BagSize(b)
            mid == 0
            Below(k) == BagSum(b, {c \in DOMAIN b : c[split_channel] < k}, 0)
            UpTo(k) == BagSum(b, {c \in DOMAIN b : c[split_channel] <= k}, 0)
            \* the key of sorted_bucket[mid]
            m == CHOOSE k \in {c[split_channel] : c \in DOMAIN b} : Below(k) <= mid /\ mid < UpTo(k)
            Tie == {c \in DOMAIN b : c[split_channel] = m}
            t == mid - Below(m)
            Takes == {f \in [Tie -> 0..t] :
                        /\ \A c \in Tie : f[c] <= b[c]
                        /\ BagSum(f, Tie, 0) = t}
        IN  {<<Compact([c \in DOMAIN b |->
                    IF c[split_channel] < m THEN b[c]
                    ELSE IF c[split_channel] = m THEN f[c] ELSE 0]),
               Compact([c \in DOMAIN b |->
                    IF c[split_channel] < m THEN 0
                    ELSE IF c[split_channel] = m THEN b[c] - f[c] ELSE b[c]])>> :
             f \in Takes}

\* every (bucket1, bucket2) that sorting by the widest channel and cutting at
\* len // 2 can give: the pixels below the cut key, and any t of those at it
_median_cut_split(b) ==
    IF BagSize(b) <= 1 THEN {<<b, EmptyBucket>>}
    ELSE
        LET split_channel == ArgMaxChannel(ChannelRanges(b))
            n == BagSize(b)
            mid == n \div 2
            Below(k) == BagSum(b, {c \in DOMAIN b : c[split_channel] < k}, 0)
            UpTo(k) == BagSum(b, {c \in DOMAIN b : c[split_channel] <= k}, 0)
            \* the key of sorted_bucket[mid]
            m == CHOOSE k \in {c[split_channel] : c \in DOMAIN b} : Below(k) <= mid /\ mid < UpTo(k)
            Tie == {c \in DOMAIN b : c[split_channel] = m}
            t == mid - Below(m)
            Takes == {f \in [Tie -> 0..t] :
                        /\ \A c \in Tie : f[c] <= b[c]
                        /\ BagSum(f, Tie, 0) = t}
        IN  {<<Compact([c \in DOMAIN b |->
                    IF c[split_channel] < m THEN b[c]
                    ELSE IF c[split_channel] = m THEN f[c] ELSE 0]),
               Compact([c \in DOMAIN b |->
                    IF c[split_channel] < m THEN 0
                    ELSE IF c[split_channel] = m THEN b[c] - f[c] ELSE b[c]])>> :
             f \in Takes}

\* (palette - pixel) ** 2 summed over the channels, in numpy's uint8 arithmetic:
\* the difference and the square both wrap modulo 256; np.sum widens to 64 bits
WrappedSquare(a, b) == (((a - b) % 256) * ((a - b) % 256)) % 256
TrueSquare(a, b) == (a - b) * (a - b)

Uint8Distance(entry, pixel) ==
    WrappedSquare(entry[1], pixel[1]) + WrappedSquare(entry[2], pixel[2])
        + WrappedSquare(entry[3], pixel[3])

\* np.argmin: the first index of the least value (0-based, as the code returns it)
ArgMin(d) ==
    (CHOOSE i \in DOMAIN d :
        /\ \A j \in DOMAIN d : d[i] <= d[j]
        /\ \A j \in 1..(i - 1) : d[j] > d[i]) - 1

_find_color_index(pixel, palette) ==
    ArgMin([i \in DOMAIN palette |-> Uint8Distance(palette[i], pixel)])

\* np.unique(pixels, axis=0): the distinct colours in ascending (r, g, b) order
LexLess(a, b) ==
    \/ a[1] < b[1]
    \/ a[1] = b[1] /\ a[2] < b[2]
    \/ a[1] = b[1] /\ a[2] = b[2] /\ a[3] < b[3]

RECURSIVE SortedLex(_)
SortedLex(S) ==
    IF S = {} THEN <<>>
    ELSE LET c == CHOOSE x \in S : \A o \in S \ {x} : LexLess(x, o)
         IN  <<c>> \o SortedLex(S \ {c})

unique_colors(pixels) == SortedLex(SeqRange(pixels))

\* lines 36-40: the distinct colours, then black up to num_colors
TrivialPaletteNoPad(pixels, num_colors) == unique_colors(pixels)

TrivialPaletteUnsorted(pixels, num_colors) ==
    LET u == unique_colors(pixels)
    IN  [i \in 1..num_colors |-> IF i <= Len(u) THEN u[Len(u) + 1 - i] ELSE <<0, 0, 0>>]

TrivialPalette(pixels, num_colors) ==
    LET u == unique_colors(pixels)
    IN  [i \in 1..num_colors |-> IF i <= Len(u) THEN u[i] ELSE <<0, 0, 0>>]

\* bucket.mean(axis=0) cast to uint8 (truncation)
BucketMean(b) == [ch \in 1..3 |-> BagSum(b, DOMAIN b, ch) \div BagSize(b)]

RemoveAt(s, i) == SubSeq(s, 1, i - 1) \o SubSeq(s, i + 1, Len(s))

\* one iteration of the while loop (lines 50-63): every [buckets, broke] it can
\* leave behind
LoopStep(buckets) ==
    LET largest_bucket_idx == _find_largest_bucket(buckets)
        largest_bucket == buckets[largest_bucket_idx]
        rest == RemoveAt(buckets, largest_bucket_idx)
    IN  {IF BagSize(sp[1]) = 0 \/ BagSize(sp[2]) = 0
         THEN [buckets |-> rest \o <<largest_bucket>>, broke |-> TRUE]
         ELSE [buckets |-> rest \o <<sp[1], sp[2]>>, broke |-> FALSE] :
         sp \in _median_cut_split(largest_bucket)}

\* the bucket lists the while loop can end with
RECURSIVE SplitLoop(_, _)
SplitLoop(buckets, num_colors) ==
    IF Len(buckets) >= num_colors THEN {buckets}
    ELSE UNION {IF st.broke THEN {st.buckets} ELSE SplitLoop(st.buckets, num_colors) :
                st \in LoopStep(buckets)}

BucketPalette(buckets) == [i \in DOMAIN buckets |-> BucketMean(buckets[i])]

MapIndices(pixels, palette) ==
    [i \in DOMAIN pixels |-> _find_color_index(pixels[i], palette)]

\* every (palette, indices) median_cut_quantize(pixels, num_colors) can return
median_cut_quantize(pixels, num_colors) ==
    IF Len(unique_colors(pixels)) <= num_colors
    THEN LET palette == TrivialPalette(pixels, num_colors)
         IN  {[palette |-> palette, indices |-> MapIndices(pixels, palette)]}
    ELSE {[palette |-> BucketPalette(bs), indices |-> MapIndices(pixels, BucketPalette(bs))] :
          bs \in SplitLoop(<<BagOf(pixels)>>, num_colors)}

\* sum of f over 1..n
RECURSIVE SeqSum(_)
SeqSum(q) == IF q = <<>> THEN 0 ELSE Head(q) + SeqSum(Tail(q))

\* _calculate_palette_error: per pixel the least uint8 distance, summed
_calculate_palette_error(scanline, palette) ==
    SeqSum([i \in DOMAIN scanline |->
        SetMin({Uint8Distance(palette[e], scanline[i]) : e \in DOMAIN palette})])

\* the first index (0-based) of the least error
_find_best_existing_palette(scanline, pals) ==
    ArgMin([i \in DOMAIN pals |-> _calculate_palette_error(scanline, pals[i])])

\* ------------------------------------------------------------ pipeline.py
\* np.sum((palette.astype(float) - target.astype(float)) ** 2)
PaletteDistance(palette, target) ==
    SeqSum([e \in DOMAIN palette |->
        TrueSquare(palette[e][1], target[e][1]) + TrueSquare(palette[e][2], target[e][2])
            + TrueSquare(palette[e][3], target[e][3])])

find_closest_palette_index(target, pals) ==
    ArgMin([i \in DOMAIN pals |-> PaletteDistance(pals[i], target)])

\* "if palette_idx < 16" (pipeline.py) and "if len(palettes) < 16" (quantize.py)
CeilingAllowsOffByOne(n) == n <= NUM_PALETTES
CeilingAllows(n) == n < NUM_PALETTES

\* the "Pad to 16 palettes" loops
PadPalettes(pals) ==
    pals \o [i \in 1..(NUM_PALETTES - Len(pals)) |-> [c \in 1..NUM_COLORS |-> <<0, 0, 0>>]]

\* large_palette[start_idx:end_idx] for i in range(num_palettes)
ChunkPalettes(large_palette) ==
    [i \in 1..NUM_PALETTES |->
        SubSeq(large_palette, (i - 1) * NUM_COLORS + 1, i * NUM_COLORS)]

\* the per-row scoring of global_quantize: the first chunk of least error
GlobalBestPalette(scanline, pals) ==
    ArgMin([i \in DOMAIN pals |-> _calculate_palette_error(scanline, pals[i])])

convert_palettes_to_iigsUnsnapped(pals) ==
    [p \in DOMAIN pals |->
        [i \in 1..NUM_COLORS |-> IF i <= Len(pals[p]) THEN pals[p][i] ELSE <<0, 0, 0>>]]

convert_palettes_to_iigs(pals) ==
    [p \in DOMAIN pals |->
        [i \in 1..NUM_COLORS |->
            IF i <= Len(pals[p]) THEN iigs12_to_rgb24(rgb24_to_iigs12(pals[p][i]))
            ELSE <<0, 0, 0>>]]

\* -------------------------------------------------------------- dither.py
\* the keys of DITHERING_ALGORITHMS
DITHERING_ALGORITHMS ==
    {"atkinson", "floyd-steinberg", "jjn", "stucki", "burkes", "ordered", "bayer", "none"}

\* the five error-diffusion classes
DiffusionMethods == {"atkinson", "floyd-steinberg", "jjn", "stucki", "burkes"}

\* the two names of OrderedDitherer
OrderedMethods == {"ordered", "bayer"}

\* (palette - pixel) ** 2 summed over the channels when pixel is a float array:
\* numpy promotes to float64, so nothing wraps
FloatDistance(entry, pixel) ==
    TrueSquare(entry[1], pixel[1]) + TrueSquare(entry[2], pixel[2])
        + TrueSquare(entry[3], pixel[3])

\* Ditherer._find_closest_color; dtype is the dtype of pixel: "uint8" for a
\* pixel read from the image, "float" for one read from a float buffer
_find_closest_color(pixel, palette, dtype) ==
    IF dtype = "uint8"
    THEN ArgMin([i \in DOMAIN palette |-> Uint8Distance(palette[i], pixel)])
    ELSE ArgMin([i \in DOMAIN palette |-> FloatDistance(palette[i], pixel)])

\* the "output[y + dy, x + dx] += error * w/d" statements of a dither method,
\* as <<dy, dx, w, d>>, in the order of the code
Kernel(method) ==
    CASE method = "atkinson" ->
            <<<<0, 1, 1, 8>>, <<0, 2, 1, 8>>,
              <<1, -1, 1, 8>>, <<1, 0, 1, 8>>, <<1, 1, 1, 8>>,
              <<2, 0, 1, 8>>>>
      [] method = "floyd-steinberg" ->
            <<<<0, 1, 7, 16>>,
              <<1, -1, 3, 16>>, <<1, 0, 5, 16>>, <<1, 1, 1, 16>>>>
      [] method = "jjn" ->
            <<<<0, 1, 7, 48>>, <<0, 2, 5, 48>>,
              <<1, -2, 3, 48>>, <<1, -1, 5, 48>>, <<1, 0, 7, 48>>, <<1, 1, 5, 48>>,
              <<1, 2, 3, 48>>,
              <<2, -2, 1, 48>>, <<2, -1, 3, 48>>, <<2, 0, 5, 48>>, <<2, 1, 3, 48>>,
              <<2, 2, 1, 48>>>>
      [] method = "stucki" ->
            <<<<0, 1, 8, 42>>, <<0, 2, 4, 42>>,
              <<1, -2, 2, 42>>, <<1, -1, 4, 42>>, <<1, 0, 8, 42>>, <<1, 1, 4, 42>>,
              <<1, 2, 2, 42>>,
              <<2, -2, 1, 42>>, <<2, -1, 2, 42>>, <<2, 0, 4, 42>>, <<2, 1, 2, 42>>,
              <<2, 2, 1, 42>>>>
      [] method = "burkes" ->
            <<<<0, 1, 8, 32>>, <<0, 2, 4, 32>>,
              <<1, -2, 2, 32>>, <<1, -1, 4, 32>>, <<1, 0, 8, 32>>, <<1, 1, 4, 32>>,
              <<1, 2, 2, 32>>>>

\* the if-conditions that guard the statement for offset (dy, dx) at pixel
\* (y, x): "y + dy < height" for a lower row, "x > 0" / "x > 1" to the left,
\* "x + dx < width" to the right
KernelGuard(t, y, x, height, width) ==
    /\ t[1] > 0 => y + t[1] < height
    /\ t[2] = -1 => x > 0
    /\ t[2] = -2 => x > 1
    /\ t[2] > 0 => x + t[2] < width

\* error * w/d, channel by channel (the quotient is exact when d divides it,
\* and error is the zero vector in every state the code reaches: see old_pixel
\* in DiffuseStep)
Share(error, w, d) == [ch \in 1..3 |-> (error[ch] * w) \div d]

\* one pass of the inner loop of an error-diffusion dither() at (y, x), 0-based:
\* the buffer and the index it leaves
DiffuseStep(method, out, y, x, palette) ==
    LET height == Len(out)
        width == Len(out[1])
        new_idx == _find_closest_color(out[y + 1][x + 1], palette, "float")
        new_pixel == palette[new_idx + 1]
        \* output[y, x] = new_pixel
        stored == [out EXCEPT ![y + 1][x + 1] = new_pixel]
        \* old_pixel = output[y, x] is a VIEW of the buffer (basic indexing of a
        \* 3-D array), not a copy: when "error = old_pixel - new_pixel" runs,
        \* the store above has already changed what old_pixel shows
        old_pixel == stored[y + 1][x + 1]
        error == [ch \in 1..3 |-> old_pixel[ch] - new_pixel[ch]]
        kernel == Kernel(method)
        Gain(r, c) ==
            LET hits == {k \in DOMAIN kernel :
                            /\ KernelGuard(kernel[k], y, x, height, width)
                            /\ y + kernel[k][1] = r
                            /\ x + kernel[k][2] = c}
            IN  IF hits = {} THEN <<0, 0, 0>>
                ELSE LET k == CHOOSE h \in hits : TRUE
                     IN  Share(error, kernel[k][3], kernel[k][4])
    IN  [output |->
            [r \in 1..height |-> [c \in 1..width |->
                [ch \in 1..3 |-> stored[r][c][ch] + Gain(r - 1, c - 1)[ch]]]],
         idx |-> new_idx]

\* OrderedDitherer() is built without arguments: matrix_size = 8
matrix_size == 8

\* the 4x4 matrix of _generate_bayer_matrix, before its division by 16
Bayer4 == <<<<0, 8, 2, 10>>, <<12, 4, 14, 6>>, <<3, 11, 1, 9>>, <<15, 7, 13, 5>>>>

_generate_bayer_matrixSwapped(n) ==
    IF n = 2 THEN <<<<0, 8>>, <<12, 4>>>>
    ELSE IF n = 4 THEN Bayer4
    ELSE IF n = 8
    THEN [i \in 1..8 |-> [j \in 1..8 |->
            LET m4 == Bayer4[((i - 1) % 4) + 1][((j - 1) % 4) + 1]
                plus == IF i <= 4 /\ j <= 4 THEN 0
                        ELSE IF i <= 4 THEN 3
                        ELSE IF j <= 4 THEN 2
                        ELSE 1
            IN  m4 + 4 * plus]]
    ELSE "ValueError"

\* _generate_bayer_matrix(n), every entry in sixteenths (entry / 16 is the
\* float of the code, which is exact): [[0,2],[3,1]] / 4 for 2, Bayer4 / 16 for
\* 4, and for 8 the four blocks m4*4, m4*4+2, m4*4+3, m4*4+1, all divided by 4
_generate_bayer_matrix(n) ==
    IF n = 2 THEN <<<<0, 8>>, <<12, 4>>>>
    ELSE IF n = 4 THEN Bayer4
    ELSE IF n = 8
    THEN [i \in 1..8 |-> [j \in 1..8 |->
            LET m4 == Bayer4[((i - 1) % 4) + 1][((j - 1) % 4) + 1]
                plus == IF i <= 4 /\ j <= 4 THEN 0
                        ELSE IF i <= 4 THEN 2
                        ELSE IF j <= 4 THEN 3
                        ELSE 1
            \* (m4/16 * 4 + plus) / 4, in sixteenths
            IN  m4 + 4 * plus]]
    ELSE "ValueError"

\* np.clip(v, 0, 255)
Clip(v) == IF v < 0 THEN 0 ELSE IF v > 255 THEN 255 ELSE v

\* the pixel OrderedDitherer.dither quantizes at (y, x), 0-based:
\* image[y, x] + (threshold - 0.5) * 32, clipped; with threshold = t / 16 the
\* offset is 2 t - 16
OrderedPixel(img, y, x) ==
    LET threshold == _generate_bayer_matrix(matrix_size)[(y % matrix_size) + 1][(x % matrix_size) + 1]
    IN  [ch \in 1..3 |-> Clip(img[y + 1][x + 1][ch] + (2 * threshold - 16))]

\* the index each dither() writes at (y, x), and the buffer it leaves; buf is
\* the float buffer of the error-diffusion classes (unused by the others)
DitherPixel(method, img, buf, y, x, palette) ==
    IF method \in DiffusionMethods
    THEN DiffuseStep(method, buf, y, x, palette)
    ELSE IF method \in OrderedMethods
    THEN [output |-> buf,
          idx |-> _find_closest_color(OrderedPixel(img, y, x), palette, "float")]
    ELSE [output |-> buf,
          idx |-> _find_closest_color(img[y + 1][x + 1], palette, "uint8")]

\* dither(image, palette) run to its return: the pixels in raster order from
\* raster position k (0-based), st = [output, indices]
RECURSIVE DitherFrom(_, _, _, _, _)
DitherFrom(method, img, palette, k, st) ==
    LET height == Len(img)
        width == Len(img[1])
    IN  IF k >= height * width THEN st.indices
        ELSE LET y == k \div width
                 x == k % width
                 r == DitherPixel(method, img, st.output, y, x, palette)
             IN  DitherFrom(method, img, palette, k + 1,
                    [output |-> r.output,
                     indices |-> [st.indices EXCEPT ![y + 1][x + 1] = r.idx]])

\* np.zeros((height, width), dtype=np.uint8)
ZeroGrid(height, width) == [r \in 1..height |-> [c \in 1..width |-> 0]]

dither(method, img, palette) ==
    DitherFrom(method, img, palette, 0,
        [output |-> img, indices |-> ZeroGrid(Len(img), Len(img[1]))])

\* pixels[y:y+1], the one-row canvas handed to the ditherer
ScanlineOfNext(pixels, y) == <<pixels[((y + 1) % Len(pixels)) + 1]>>
ScanlineOf(pixels, y) == <<pixels[y + 1]>>

\* apply_per_scanline_dithering, one pass of "for y in range(200)": the row of
\* pixel_indices it fills
DitherScanline(method, pixels, pals, scb, y) ==
    LET palette_idx == scb[y + 1]
        palette == pals[palette_idx + 1]
        scanline == ScanlineOf(pixels, y)
    IN  dither(method, scanline, palette)[1]

\* the whole loop
apply_per_scanline_dithering(pixels, pals, scb, method) ==
    [r \in 1..Len(pixels) |-> DitherScanline(method, pixels, pals, scb, r - 1)]

\* ------------------------------------------------------------- the state
VARIABLES
    \* write_3200_file's arguments
    pixel_indices, scb_bytes, palettes,
    \* the file at output_path: [exists, bytes]
    disk,
    \* what read_3200_file returned
    readback,
    \* where the write/read session is: "start", "written", "write_error",
    \* "read", "read_error", or "idle" when another subsystem runs
    fpc,
    \* median_cut_quantize: its arguments, the bucket list of the while loop,
    \* the result, and where the call is ("start", "loop", "emit", "done")
    mc_pixels, num_colors, buckets, mc_palette, mc_indices, mc_pc,
    \* palette assignment: the canvas, the strategy and its threshold, the next
    \* row y, the recorded palettes, the dedup map, the SCB vector, and where
    \* the call is ("start", "rows", "done")
    image, strategy, error_threshold, y, a_palettes, palette_map, a_scb, apc,
    \* convert_palettes_to_iigs: its argument, its result, "start" / "done"
    s_palettes, iigs_palettes, spc,
    \* one call of a Ditherer's dither(image, palette): the arguments, the class
    \* (by its key in DITHERING_ALGORITHMS), the float buffer, the index grid,
    \* the loop position (dy, dx) and where the call is ("start", "loop", "done")
    dimage, dpalette, ditherer, output, indices, dy, dx, dpc,
    \* apply_per_scanline_dithering: its arguments, the next row, the grid it
    \* fills, and where the call is ("start", "rows", "done", "error"); p_twin
    \* is a second canvas run through the same call with the same palettes and
    \* SCBs, p_twin_indices its grid
    p_pixels, p_twin, p_palettes, p_scb, p_method, p_y, p_indices, p_twin_indices, ppc,
    \* convert_image: the options, the grid of the dithering stage, and where
    \* the call is ("start", "palettes", "snapped", "dithered", "written", "error")
    dither_method, quantize_method, optimize_palettes, c_error_threshold, c_indices, cpc,
    \* the web server: the session folders under UPLOAD_FOLDER (id |-> the set of
    \* file names), the folders older than the session timeout, the ids that
    \* uploads have answered with, the last request and its response
    w_folders, w_old, w_issued, w_request, w_response,
    \* one OrderedDitherer: the matrix_size it was built with, its bayer_matrix,
    \* the pixel position and channel value of the last threshold lookup, the
    \* perturbed value before clipping, the index chosen, and where the object
    \* is ("start", "built", "error")
    o_size, bayer_matrix, o_y, o_x, o_value, o_perturbed, o_index, opc

fvars == <<pixel_indices, scb_bytes, palettes, disk, readback, fpc>>
mvars == <<mc_pixels, num_colors, buckets, mc_palette, mc_indices, mc_pc>>
avars == <<image, strategy, error_threshold, y, a_palettes, palette_map, a_scb, apc>>
svars == <<s_palettes, iigs_palettes, spc>>

zvars == <<dimage, dpalette, ditherer, output, indices, dy, dx, dpc>>
pvars == <<p_pixels, p_twin, p_palettes, p_scb, p_method, p_y, p_indices, p_twin_indices, ppc>>
cvars == <<dither_method, quantize_method, optimize_palettes, c_error_threshold, c_indices, cpc>>
wvars == <<w_folders, w_old, w_issued, w_request, w_response>>
ovars == <<o_size, bayer_matrix, o_y, o_x, o_value, o_perturbed, o_index, opc>>

vars == <<fvars, mvars, avars, svars, zvars, pvars, cvars, wvars, ovars>>

\* a subsystem that is not running
FileIdle ==
    /\ pixel_indices = <<>> /\ scb_bytes = <<>> /\ palettes = <<>>
    /\ disk = <<>> /\ readback = <<>> /\ fpc = "idle"

QuantIdle ==
    /\ mc_pixels = <<>> /\ num_colors = 0 /\ buckets = <<>>
    /\ mc_palette = <<>> /\ mc_indices = <<>> /\ mc_pc = "idle"

AssignIdle ==
    /\ image = <<>> /\ strategy = "none" /\ error_threshold = 0 /\ y = 0
    /\ a_palettes = <<>> /\ palette_map = <<>> /\ a_scb = <<>> /\ apc = "idle"

SnapIdle == s_palettes = <<>> /\ iigs_palettes = <<>> /\ spc = "idle"

DithererIdle ==
    /\ dimage = <<>> /\ dpalette = <<>> /\ ditherer = "" /\ output = <<>>
    /\ indices = <<>> /\ dy = 0 /\ dx = 0 /\ dpc = "idle"

DitherIdle ==
    /\ p_pixels = <<>> /\ p_twin = <<>> /\ p_palettes = <<>> /\ p_scb = <<>>
    /\ p_method = "" /\ p_y = 0 /\ p_indices = <<>> /\ p_twin_indices = <<>>
    /\ ppc = "idle"

ConvertIdle ==
    /\ dither_method = "" /\ quantize_method = "" /\ optimize_palettes = FALSE
    /\ c_error_threshold = 0 /\ c_indices = <<>> /\ cpc = "idle"

WebIdle ==
    /\ w_folders = <<>> /\ w_old = {} /\ w_issued = {}
    /\ w_request = <<>> /\ w_response = <<>>

OrderedIdle ==
    /\ o_size = 0 /\ bayer_matrix = <<>> /\ o_y = 0 /\ o_x = 0
    /\ o_value = 0 /\ o_perturbed = 0 /\ o_index = 0 /\ opc = "idle"

NoFile == [exists |-> FALSE, bytes |-> <<>>]
NoResult == [pixel_indices |-> <<>>, scb_bytes |-> <<>>, palettes |-> <<>>]

\* ------------------------------------------------- inputs of the file session
\* a grid that is bg everywhere except one probed pixel
ProbeGrid(h, w, bg, py, px, v) ==
    [yy \in 1..h |-> [xx \in 1..w |-> IF yy = py /\ xx = px THEN v ELSE bg]]

\* pixel values: every valid index, and two that do not fit a nibble
PixelValues == 0..15 \cup {19, 255}

RichGrids ==
    {ProbeGrid(HEIGHT, WIDTH, bg, py, px, v) :
        bg \in {0, 9, 15}, py \in 1..HEIGHT, px \in 1..WIDTH, v \in PixelValues}

\* grids write_3200_file rejects
BadGrids ==
    {ProbeGrid(HEIGHT + 1, WIDTH, 0, 1, 1, 3), ProbeGrid(HEIGHT, WIDTH - 1, 0, 1, 1, 3)}

FewGrids ==
    {ProbeGrid(HEIGHT, WIDTH, 0, 1, 1, 0),
     [yy \in 1..HEIGHT |-> [xx \in 1..WIDTH |-> (5 * yy + 3 * xx) % 16]]}

\* a 1-D array: its dtype's item size in bytes and its values
ProbeVector(n, isz, bg, py, v) ==
    [itemsize |-> isz, vals |-> [yy \in 1..n |-> IF yy = py THEN v ELSE bg]]

RichScb ==
    {ProbeVector(HEIGHT, 1, bg, py, v) :
        bg \in {0, 1}, py \in 1..HEIGHT, v \in 0..15 \cup {16, 31, 255}}
    \cup {ProbeVector(HEIGHT, 2, 0, py, v) : py \in 1..HEIGHT, v \in {0, 1, 300}}

BadScb == {ProbeVector(HEIGHT + 1, 1, 0, 1, 1)}

FewScb ==
    {ProbeVector(HEIGHT, 1, 0, 1, 0),
     [itemsize |-> 1, vals |-> [yy \in 1..HEIGHT |-> (yy - 1) % NUM_PALETTES]]}

\* channel values: the 12-bit grid's ends and middle, and the neighbours of
\* rounding boundaries (8.5, 25.5, 127.5, 246.5)
ChannelValues == {0, 8, 9, 17, 25, 26, 127, 128, 136, 246, 247, 255}

ProbeColors ==
    {[ch \in 1..3 |-> IF ch = c THEN v ELSE o] :
        c \in 1..3, v \in ChannelValues, o \in {0, 136}}

\* n palettes of bg, one probed entry; `short` drops the last colour of the
\* last palette
ProbePalettes(n, bg, pp, pc, col, short) ==
    [p \in 1..n |->
        [c \in 1..(IF short /\ p = n THEN NUM_COLORS - 1 ELSE NUM_COLORS) |->
            IF p = pp /\ c = pc THEN col ELSE bg]]

RichPalettes ==
    {ProbePalettes(n, bg, pp, pc, col, FALSE) :
        n \in 1..(NUM_PALETTES + 1), bg \in {<<0, 0, 0>>, <<17, 34, 51>>},
        pp \in 1..(NUM_PALETTES + 1), pc \in 1..NUM_COLORS, col \in ProbeColors}
    \cup {ProbePalettes(n, <<17, 34, 51>>, 1, 1, <<255, 0, 136>>, TRUE) : n \in 1..NUM_PALETTES}
    \cup {<<>>}

FewPalettes == {<<>>, ProbePalettes(1, <<17, 34, 51>>, 1, 1, <<255, 0, 136>>, FALSE)}

FileInputs ==
    ((RichGrids \cup BadGrids) \X FewScb \X FewPalettes)
    \cup (FewGrids \X (RichScb \cup BadScb) \X FewPalettes)
    \cup (FewGrids \X FewScb \X RichPalettes)

InitFile ==
    /\ \E inp \in FileInputs :
        /\ pixel_indices = inp[1]
        /\ scb_bytes = inp[2]
        /\ palettes = inp[3]
    /\ disk = NoFile
    /\ readback = NoResult
    /\ fpc = "start"
    /\ QuantIdle /\ AssignIdle /\ SnapIdle
    /\ DithererIdle /\ DitherIdle /\ ConvertIdle /\ WebIdle /\ OrderedIdle

\* ------------------------------------------------------------ the actions
\* write_3200_file(output_path, pixel_indices, scb_bytes, palettes)
write_3200_file ==
    /\ fpc = "start"
    /\ \/ /\ ~WriteAccepts(pixel_indices, scb_bytes, palettes)
          /\ fpc' = "write_error"
          /\ disk' = disk
       \/ /\ WriteAccepts(pixel_indices, scb_bytes, palettes)
          /\ disk' = [exists |-> TRUE, bytes |-> FileBytes(pixel_indices, scb_bytes, palettes)]
          /\ fpc' = "written"
    /\ UNCHANGED <<pixel_indices, scb_bytes, palettes, readback>>
    /\ UNCHANGED <<mvars, avars, svars, zvars, pvars, cvars, wvars, ovars>>

\* read_3200_file(output_path)
read_3200_file ==
    /\ fpc = "written"
    /\ \/ /\ Len(disk.bytes) # FILE_SIZE
          /\ fpc' = "read_error"
          /\ readback' = readback
       \/ /\ Len(disk.bytes) = FILE_SIZE
          /\ readback' = ReadResult(disk.bytes)
          /\ fpc' = "read"
    /\ UNCHANGED <<pixel_indices, scb_bytes, palettes, disk>>
    /\ UNCHANGED <<mvars, avars, svars, zvars, pvars, cvars, wvars, ovars>>

NextFile == write_3200_file \/ read_3200_file

SpecFile == InitFile /\ [][NextFile]_vars

\* --------------------------------------------------- container properties
Written == fpc \in {"written", "read", "read_error"}

\* the 12-bit grid: the sixteen channel values 0, 17, ..., 255
GridValues == {17 * n : n \in 0..15}

BlackPalette == [c \in 1..NUM_COLORS |-> <<0, 0, 0>>]

pad_to_16(pals) == pals \o [i \in 1..(NUM_PALETTES - Len(pals)) |-> BlackPalette]

\* a valid (IndexGrid, ScbVector, PaletteSet): indices and SCBs are nibbles held
\* in bytes, at most NUM_PALETTES palettes of NUM_COLORS entries on the grid
ValidTriple ==
    /\ Shape2(pixel_indices) = <<HEIGHT, WIDTH>>
    /\ \A yy \in 1..HEIGHT : \A xx \in 1..WIDTH : pixel_indices[yy][xx] \in 0..15
    /\ scb_bytes.itemsize = 1
    /\ Len(scb_bytes.vals) = HEIGHT
    /\ \A yy \in 1..HEIGHT : scb_bytes.vals[yy] \in 0..15
    /\ Len(palettes) <= NUM_PALETTES
    /\ \A p \in 1..Len(palettes) :
        /\ Len(palettes[p]) = NUM_COLORS
        /\ \A c \in 1..NUM_COLORS : \A ch \in 1..3 : palettes[p][c][ch] \in GridValues

\* C1: for every valid triple the write succeeds, the read succeeds, and the
\* read returns exactly (I, S, P padded with all-black palettes).
C1_RoundTrip ==
    ValidTriple =>
        /\ fpc \notin {"write_error", "read_error"}
        /\ fpc = "read" =>
            readback = [pixel_indices |-> pixel_indices,
                        scb_bytes |-> scb_bytes.vals,
                        palettes |-> pad_to_16(palettes)]

C1_Witness ==
    /\ fpc = "read"
    /\ ValidTriple
    /\ Len(palettes) \in 1..(NUM_PALETTES - 1)
    /\ \E p \in 1..Len(palettes) : \E c \in 1..NUM_COLORS : palettes[p][c] = <<136, 0, 0>>
    /\ \E yy \in 1..HEIGHT : scb_bytes.vals[yy] # 0
    /\ pixel_indices[1][1] = 8

\* C2: every accepted call writes exactly FILE_SIZE bytes, with the padding
\* bytes SCB_END .. PALETTE_OFFSET-1 all zero.
C2_SizeAndPadding ==
    Written =>
        /\ Len(disk.bytes) = FILE_SIZE
        /\ \A i \in SCB_END..(PALETTE_OFFSET - 1) : At(disk.bytes, i) = 0

RoundHalfUp15(v) == CHOOSE n \in 0..15 : 510 * n <= 30 * v + 255 /\ 30 * v + 255 < 510 * (n + 1)

\* C4: the word at PALETTE_OFFSET + (p*NUM_COLORS+c)*2 is little-endian with R
\* in bits 0-3, G in bits 4-7, B in bits 8-11, bits 12-15 zero, each nibble
\* round-half-up(channel*15/255); slots beyond the supplied palettes are zero.
C4_PaletteLayout ==
    Written =>
        \A p \in 0..(NUM_PALETTES - 1) : \A c \in 0..(NUM_COLORS - 1) :
            LET off == PALETTE_OFFSET + (p * NUM_COLORS + c) * 2
                lo == At(disk.bytes, off)
                hi == At(disk.bytes, off + 1)
            IN  /\ (p < Len(palettes) /\ c < Len(palettes[p + 1])) =>
                    LET rgb == palettes[p + 1][c + 1]
                    IN  /\ lo % 16 = RoundHalfUp15(rgb[1])
                        /\ lo \div 16 = RoundHalfUp15(rgb[2])
                        /\ hi % 16 = RoundHalfUp15(rgb[3])
                        /\ hi \div 16 = 0
                /\ p >= Len(palettes) => lo = 0 /\ hi = 0

C4_Witness ==
    /\ Written
    /\ Len(palettes) \in 1..(NUM_PALETTES - 1)
    /\ \E c \in 1..Len(palettes[1]) :
        /\ palettes[1][c] = <<136, 247, 136>>
        /\ At(disk.bytes, PALETTE_OFFSET + 2 * (c - 1)) = 248
        /\ At(disk.bytes, PALETTE_OFFSET + 2 * (c - 1) + 1) = 8

\* C5: byte SCB_OFFSET + y of every written file is row y's SCB: the palette
\* index in the low nibble, the high nibble zero (stated here for SCB arrays of
\* bytes, the narrowest reading of "every file write_3200_file writes").
C5_ScbBytes ==
    (Written /\ scb_bytes.itemsize = 1) =>
        \A yy \in 0..(HEIGHT - 1) :
            LET byte == At(disk.bytes, SCB_OFFSET + yy)
            IN  /\ byte % 16 = scb_bytes.vals[yy + 1] % 16
                /\ byte \div 16 = 0

\* ======================================================= median_cut_quantize
\* colours of the direct calls: black and (16,0,0) differ by a multiple of 16,
\* the two (10,.,30) share two channels, white is far from all
MCColors == {<<0, 0, 0>>, <<16, 0, 0>>, <<10, 200, 30>>, <<10, 40, 30>>, <<255, 255, 255>>}

RECURSIVE SeqsUpTo(_, _)
SeqsUpTo(S, n) ==
    IF n = 0 THEN {<<>>}
    ELSE LET shorter == SeqsUpTo(S, n - 1)
         IN  shorter \cup {Append(q, c) : q \in {x \in shorter : Len(x) = n - 1}, c \in S}

MCInputs == SeqsUpTo(MCColors, MaxPixels) \ {<<>>}

InitMC ==
    /\ mc_pixels \in MCInputs
    /\ num_colors \in 1..MaxColors
    /\ buckets = <<>>
    /\ mc_palette = <<>>
    /\ mc_indices = <<>>
    /\ mc_pc = "start"
    /\ FileIdle /\ AssignIdle /\ SnapIdle
    /\ DithererIdle /\ DitherIdle /\ ConvertIdle /\ WebIdle /\ OrderedIdle

\* lines 33-47: the trivial case returns at once, otherwise one bucket
mc_begin ==
    /\ mc_pc = "start"
    /\ \/ /\ Len(unique_colors(mc_pixels)) <= num_colors
          /\ mc_palette' = TrivialPalette(mc_pixels, num_colors)
          /\ mc_indices' = MapIndices(mc_pixels, TrivialPalette(mc_pixels, num_colors))
          /\ mc_pc' = "done"
          /\ buckets' = buckets
       \/ /\ Len(unique_colors(mc_pixels)) > num_colors
          /\ buckets' = <<BagOf(mc_pixels)>>
          /\ mc_pc' = "loop"
          /\ UNCHANGED <<mc_palette, mc_indices>>
    /\ UNCHANGED <<mc_pixels, num_colors>>
    /\ UNCHANGED <<fvars, avars, svars, zvars, pvars, cvars, wvars, ovars>>

\* lines 50-63: one iteration of the while loop
mc_split ==
    /\ mc_pc = "loop"
    /\ Len(buckets) < num_colors
    /\ \E st \in LoopStep(buckets) :
        /\ buckets' = st.buckets
        /\ mc_pc' = IF st.broke THEN "emit" ELSE "loop"
    /\ UNCHANGED <<mc_pixels, num_colors, mc_palette, mc_indices>>
    /\ UNCHANGED <<fvars, avars, svars, zvars, pvars, cvars, wvars, ovars>>

\* lines 66-71: the bucket means and the index vector
mc_emit ==
    /\ mc_pc = "emit" \/ (mc_pc = "loop" /\ Len(buckets) >= num_colors)
    /\ mc_palette' = BucketPalette(buckets)
    /\ mc_indices' = MapIndices(mc_pixels, BucketPalette(buckets))
    /\ mc_pc' = "done"
    /\ UNCHANGED <<mc_pixels, num_colors, buckets>>
    /\ UNCHANGED <<fvars, avars, svars, zvars, pvars, cvars, wvars, ovars>>

NextMC == mc_begin \/ mc_split \/ mc_emit

SpecMC == InitMC /\ [][NextMC]_vars

\* ================================================= convert_palettes_to_iigs
\* one palette with one probed entry: a channel takes every value 0..255
SnapInputs ==
    {<<[i \in 1..NUM_COLORS |->
            IF i = pc THEN [ch \in 1..3 |-> IF ch = c THEN v ELSE o] ELSE <<o, 255 - o, 8>>]>> :
        pc \in 1..NUM_COLORS, c \in 1..3, v \in 0..255, o \in {0, 136}}

InitSnap ==
    /\ s_palettes \in SnapInputs
    /\ iigs_palettes = <<>>
    /\ spc = "start"
    /\ FileIdle /\ QuantIdle /\ AssignIdle
    /\ DithererIdle /\ DitherIdle /\ ConvertIdle /\ WebIdle /\ OrderedIdle

snap_palettes ==
    /\ spc = "start"
    /\ iigs_palettes' = convert_palettes_to_iigs(s_palettes)
    /\ spc' = "done"
    /\ UNCHANGED s_palettes
    /\ UNCHANGED <<fvars, mvars, avars, zvars, pvars, cvars, wvars, ovars>>

NextSnap == snap_palettes

SpecSnap == InitSnap /\ [][NextSnap]_vars

\* ========================================================= palette assignment
\* twelve colours, distinct in every channel; red steps by 16
AColor(i) == <<(16 * i) % 256, (37 * i) % 256, 255 - 20 * i>>

UniformRow(i) == [x \in 1..SCAN_WIDTH |-> AColor(i)]
GradientRow(a) == [x \in 1..SCAN_WIDTH |-> AColor((a + (x - 1)) % 12)]
TwoToneRow(a, b) == [x \in 1..SCAN_WIDTH |-> IF x = 1 THEN AColor(a) ELSE AColor(b)]

RowFamily ==
    {UniformRow(0), UniformRow(5), GradientRow(0), GradientRow(4), GradientRow(8),
     TwoToneRow(0, 1)}

\* error_threshold: exact reuse only, a moderate budget, and one no row exceeds
Thresholds == {0, 500, 1000000}

InitAssign ==
    /\ image \in [1..HEIGHT -> RowFamily]
    /\ \E st \in {"median-cut", "global", "optimized"} : \E th \in Thresholds :
        /\ strategy = st
        /\ error_threshold = (IF st = "optimized" THEN th ELSE 0)
    /\ y = 0
    /\ a_palettes = <<>>
    /\ palette_map = <<>>
    /\ a_scb = <<>>
    /\ apc = "start"
    /\ FileIdle /\ QuantIdle /\ SnapIdle
    /\ DithererIdle /\ DitherIdle /\ ConvertIdle /\ WebIdle /\ OrderedIdle

\* image.reshape(-1, 3)
AllPixels(img) == Flatten(img)

\* an insertion that stores the index after the one given
MapPutNextIndex(m, key, idx) == [k \in DOMAIN m \cup {key} |-> IF k = key THEN idx + 1 ELSE m[k]]

\* dict insertion  palette_map[palette_key] = palette_idx
MapPut(m, key, idx) == [k \in DOMAIN m \cup {key} |-> IF k = key THEN idx ELSE m[k]]

\* a recorder that appends the palette and forgets to enter it in palette_map
PerScanlineRecordNoMapEntry(palette, pals, pmap) ==
    IF palette \in DOMAIN pmap
    THEN [idx |-> pmap[palette], pals |-> pals, pmap |-> pmap]
    ELSE IF CeilingAllows(Len(pals))
    THEN [idx |-> Len(pals), pals |-> Append(pals, palette), pmap |-> pmap]
    ELSE [idx |-> find_closest_palette_index(palette, pals), pals |-> pals, pmap |-> pmap]

\* pipeline.py lines 152-162: dedupe, record below the ceiling, else the
\* recorded palette closest to the incoming one
PerScanlineRecord(palette, pals, pmap) ==
    IF palette \in DOMAIN pmap
    THEN [idx |-> pmap[palette], pals |-> pals, pmap |-> pmap]
    ELSE IF CeilingAllows(Len(pals))
    THEN [idx |-> Len(pals), pals |-> Append(pals, palette),
          pmap |-> MapPut(pmap, palette, Len(pals))]
    ELSE [idx |-> find_closest_palette_index(palette, pals), pals |-> pals, pmap |-> pmap]

\* quantize.py lines 264-276: dedupe, record below the ceiling, else the
\* recorded palette of least error on the row
OptimizedRecordNoDedupe(scanline, palette, pals, pmap) ==
    IF CeilingAllows(Len(pals))
    THEN [idx |-> Len(pals), pals |-> Append(pals, palette),
          pmap |-> MapPut(pmap, palette, Len(pals))]
    ELSE [idx |-> _find_best_existing_palette(scanline, pals), pals |-> pals, pmap |-> pmap]

OptimizedRecord(scanline, palette, pals, pmap) ==
    IF palette \in DOMAIN pmap
    THEN [idx |-> pmap[palette], pals |-> pals, pmap |-> pmap]
    ELSE IF CeilingAllows(Len(pals))
    THEN [idx |-> Len(pals), pals |-> Append(pals, palette),
          pmap |-> MapPut(pmap, palette, Len(pals))]
    ELSE [idx |-> _find_best_existing_palette(scanline, pals), pals |-> pals, pmap |-> pmap]

\* the first statements of the three strategies
assign_begin ==
    /\ apc = "start"
    /\ \/ /\ strategy \in {"median-cut", "optimized"}
          /\ a_palettes' = <<>>
       \/ /\ strategy = "global"
          /\ \E res \in median_cut_quantize(AllPixels(image), NUM_PALETTES * NUM_COLORS) :
                a_palettes' = ChunkPalettes(res.palette)
    /\ palette_map' = <<>>
    /\ a_scb' = Zeros(HEIGHT)
    /\ y' = 0
    /\ apc' = "rows"
    /\ UNCHANGED <<image, strategy, error_threshold>>
    /\ UNCHANGED <<fvars, mvars, svars, zvars, pvars, cvars, wvars, ovars>>

\* generate_per_scanline_palettes, one pass of "for y in range(200)"
per_scanline_row ==
    /\ apc = "rows" /\ strategy = "median-cut" /\ y < HEIGHT
    /\ \E res \in median_cut_quantize(image[y + 1], NUM_COLORS) :
        LET rec == PerScanlineRecord(res.palette, a_palettes, palette_map)
        IN  /\ a_palettes' = rec.pals
            /\ palette_map' = rec.pmap
            /\ a_scb' = [a_scb EXCEPT ![y + 1] = rec.idx]
    /\ y' = y + 1
    /\ UNCHANGED <<image, strategy, error_threshold, apc>>
    /\ UNCHANGED <<fvars, mvars, svars, zvars, pvars, cvars, wvars, ovars>>

\* quantize.py lines 240-276, the body of "for y in range(height)": what it
\* assigns to row y (0-based) given the previous row's SCB, the recorded
\* palettes and the dedup map
OptimizedRowBody(scanline, row, prev_palette_idx, pals, pmap, threshold) ==
    IF /\ row > 0
       /\ _calculate_palette_error(scanline, pals[prev_palette_idx + 1]) <= threshold
    THEN {[idx |-> prev_palette_idx, pals |-> pals, pmap |-> pmap]}
    ELSE {OptimizedRecord(scanline, res.palette, pals, pmap) :
            res \in median_cut_quantize(scanline, NUM_COLORS)}

\* optimized_quantize, one pass of "for y in range(height)"
optimized_row ==
    /\ apc = "rows" /\ strategy = "optimized" /\ y < HEIGHT
    /\ \E rec \in OptimizedRowBody(image[y + 1], y, IF y > 0 THEN a_scb[y] ELSE 0,
                                    a_palettes, palette_map, error_threshold) :
        /\ a_palettes' = rec.pals
        /\ palette_map' = rec.pmap
        /\ a_scb' = [a_scb EXCEPT ![y + 1] = rec.idx]
    /\ y' = y + 1
    /\ UNCHANGED <<image, strategy, error_threshold, apc>>
    /\ UNCHANGED <<fvars, mvars, svars, zvars, pvars, cvars, wvars, ovars>>

\* global_quantize, one pass of "for y in range(height)"
global_row ==
    /\ apc = "rows" /\ strategy = "global" /\ y < HEIGHT
    /\ a_scb' = [a_scb EXCEPT ![y + 1] = GlobalBestPalette(image[y + 1], a_palettes)]
    /\ y' = y + 1
    /\ UNCHANGED <<image, strategy, error_threshold, a_palettes, palette_map, apc>>
    /\ UNCHANGED <<fvars, mvars, svars, zvars, pvars, cvars, wvars, ovars>>

\* after the last row: the two dedup strategies pad, all three return
assign_return ==
    /\ apc = "rows" /\ y = HEIGHT
    /\ a_palettes' = IF strategy = "global" THEN a_palettes ELSE PadPalettes(a_palettes)
    /\ apc' = "done"
    /\ UNCHANGED <<image, strategy, error_threshold, y, palette_map, a_scb>>
    /\ UNCHANGED <<fvars, mvars, svars, zvars, pvars, cvars, wvars, ovars>>

NextAssign ==
    assign_begin \/ per_scanline_row \/ optimized_row \/ global_row \/ assign_return

SpecAssign == InitAssign /\ [][NextAssign]_vars

\* C6: in every strategy, after every processed row at most NUM_PALETTES
\* palettes are recorded and every SCB value assigned so far indexes one of
\* them; the returned PaletteSet has at most NUM_PALETTES palettes.
C6_PaletteCeiling ==
    apc \in {"rows", "done"} =>
        /\ Len(a_palettes) <= NUM_PALETTES
        /\ \A r \in 1..y : a_scb[r] \in 0..(Len(a_palettes) - 1)

\* a row met the full ceiling with a palette not yet recorded
C6_Witness ==
    /\ apc = "rows"
    /\ strategy \in {"median-cut", "optimized"}
    /\ y = HEIGHT
    /\ Len(a_palettes) = NUM_PALETTES
    /\ \E r \in 1..HEIGHT :
        \E res \in median_cut_quantize(image[r], NUM_COLORS) :
            res.palette \notin DOMAIN palette_map

\* -------------------------------------------------------- snapping property
\* C7: convert_palettes_to_iigs replaces every channel v by round(v*15/255)*17:
\* the value 17 n of the 12-bit grid with n the integer nearest to v / 17 (no
\* v in 0..255 is halfway between two).
C7_Snapping ==
    spc = "done" =>
        /\ Len(iigs_palettes) = Len(s_palettes)
        /\ \A p \in DOMAIN s_palettes : \A i \in 1..NUM_COLORS : \A ch \in 1..3 :
            LET v == s_palettes[p][i][ch]
                out == iigs_palettes[p][i][ch]
            IN  \E n \in 0..15 :
                    /\ out = 17 * n
                    /\ 2 * (17 * n - v) < 17
                    /\ 2 * (v - 17 * n) < 17

C7_Witness ==
    /\ spc = "done"
    /\ \E i \in 1..NUM_COLORS :
        /\ s_palettes[1][i] = <<136, 247, 136>>
        /\ iigs_palettes[1][i] = <<136, 255, 136>>

\* ------------------------------------------------------ quantizer properties
DistinctColors == Cardinality(SeqRange(mc_pixels))

\* C8: the palette has exactly num_colors entries (black after the distinct
\* colours when the input has fewer than num_colors of them) and the index
\* vector has one value < num_colors per pixel.
C8_PaletteAndIndexShape ==
    mc_pc = "done" =>
        /\ Len(mc_palette) = num_colors
        /\ \A i \in 1..num_colors : \A ch \in 1..3 : mc_palette[i][ch] \in 0..255
        /\ DistinctColors < num_colors =>
            \A i \in (DistinctColors + 1)..num_colors : mc_palette[i] = <<0, 0, 0>>
        /\ Len(mc_indices) = Len(mc_pixels)
        /\ \A i \in DOMAIN mc_indices : mc_indices[i] \in 0..(num_colors - 1)

C8_Witness ==
    /\ mc_pc = "done"
    /\ DistinctColors > num_colors
    /\ num_colors >= 2
    /\ Len(buckets) = num_colors
    /\ Len(mc_pixels) = MaxPixels

TrueDistance(entry, pixel) ==
    TrueSquare(entry[1], pixel[1]) + TrueSquare(entry[2], pixel[2])
        + TrueSquare(entry[3], pixel[3])

\* C9: every pixel's index is the palette entry of least true squared
\* Euclidean distance, the lowest such index among equals.
C9_NearestEntry ==
    mc_pc = "done" =>
        \A i \in DOMAIN mc_pixels :
            LET k == mc_indices[i] + 1
            IN  /\ \A j \in DOMAIN mc_palette :
                    TrueDistance(mc_palette[k], mc_pixels[i]) <= TrueDistance(mc_palette[j], mc_pixels[i])
                /\ \A j \in 1..(k - 1) :
                    TrueDistance(mc_palette[k], mc_pixels[i]) < TrueDistance(mc_palette[j], mc_pixels[i])

\* C10: with at most num_colors distinct colours the palette is those colours
\* in ascending (R,G,B) order, then black; a uniform input gives its colour at
\* entry 0, black after it, and index 0 for every pixel.
C10_TrivialInput ==
    (mc_pc = "done" /\ DistinctColors <= num_colors) =>
        /\ Len(mc_palette) = num_colors
        /\ {mc_palette[i] : i \in 1..DistinctColors} = SeqRange(mc_pixels)
        /\ \A i \in 1..(DistinctColors - 1) : LexLess(mc_palette[i], mc_palette[i + 1])
        /\ \A i \in (DistinctColors + 1)..num_colors : mc_palette[i] = <<0, 0, 0>>
        /\ DistinctColors = 1 =>
            /\ mc_palette[1] = mc_pixels[1]
            /\ \A i \in DOMAIN mc_indices : mc_indices[i] = 0

C10_Witness ==
    /\ mc_pc = "done"
    /\ num_colors = MaxColors
    /\ Len(mc_pixels) >= 3
    /\ mc_pixels[1] = <<255, 255, 255>>
    /\ mc_pixels[2] = <<10, 200, 30>>
    /\ mc_pixels[3] = <<255, 255, 255>>
    /\ DistinctColors = 2
    /\ mc_palette[1] = <<10, 200, 30>>
    /\ mc_palette[2] = <<255, 255, 255>>
    /\ mc_palette[MaxColors] = <<0, 0, 0>>

\* ------------------------------------------------ strategy properties
\* the summed true squared distance of a row's pixels to their nearest entries
TrueRowError(scanline, palette) ==
    SeqSum([i \in DOMAIN scanline |->
        SetMin({TrueDistance(palette[e], scanline[i]) : e \in DOMAIN palette})])

\* C11: in optimized_quantize every row y > 0 keeps the SCB of row y-1, without
\* generating or recording a palette, exactly when the row's total true squared
\* distance to the nearest entries of the palette assigned to row y-1 is at most
\* error_threshold; otherwise the row gets a fresh median-cut palette.
C11_ReuseRule ==
    [][(apc = "rows" /\ strategy = "optimized" /\ y > 0 /\ y' = y + 1) =>
        LET scanline == image[y + 1]
            prev_palette_idx == a_scb[y]
            within == TrueRowError(scanline, a_palettes[prev_palette_idx + 1]) <= error_threshold
        IN  /\ within =>
                /\ a_scb'[y + 1] = prev_palette_idx
                /\ a_palettes' = a_palettes
                /\ palette_map' = palette_map
            /\ ~within =>
                \E res \in median_cut_quantize(scanline, NUM_COLORS) :
                    LET rec == OptimizedRecord(scanline, res.palette, a_palettes, palette_map)
                    IN  /\ a_scb'[y + 1] = rec.idx
                        /\ a_palettes' = rec.pals
                        /\ palette_map' = rec.pmap]_vars

DistinctRows == Cardinality(SeqRange(image))

Least(a, b) == IF a <= b THEN a ELSE b

\* C12 as stated: with error_threshold = 0, optimized_quantize ends with as many
\* recorded palettes as the image has distinct rows, capped at NUM_PALETTES.
C12_OnePalettePerDistinctRow ==
    (strategy = "optimized" /\ error_threshold = 0 /\ apc = "rows" /\ y = HEIGHT) =>
        Len(a_palettes) = Least(DistinctRows, NUM_PALETTES)

\* C12 amended: with error_threshold = 0, after every processed row the number
\* of recorded palettes is at least one and at most the number of distinct rows
\* processed so far, capped at NUM_PALETTES, and no palette is recorded twice.
C12_AtMostOnePalettePerDistinctRow ==
    (strategy = "optimized" /\ error_threshold = 0 /\ apc = "rows" /\ y >= 1) =>
        /\ Len(a_palettes) >= 1
        /\ Len(a_palettes) <= Least(Cardinality({image[r] : r \in 1..y}), NUM_PALETTES)
        /\ \A i, j \in 1..Len(a_palettes) : a_palettes[i] = a_palettes[j] => i = j

\* all rows differ, two of them share a palette through exact reuse
C12_Witness ==
    /\ strategy = "optimized" /\ error_threshold = 0 /\ apc = "rows" /\ y = HEIGHT
    /\ DistinctRows = HEIGHT
    /\ Len(a_palettes) = NUM_PALETTES
    /\ \E r \in 2..HEIGHT : image[r] # image[r - 1] /\ a_scb[r] = a_scb[r - 1]
    /\ \E r \in 2..HEIGHT : a_scb[r] # a_scb[r - 1]

\* C13: in the per-scanline and the optimized strategy, a row that produces a
\* palette not among the NUM_PALETTES recorded ones gets the index of a recorded
\* palette whose summed squared nearest-entry error against the row's own
\* pixels is the smallest.
C13_CeilingFallback ==
    [][(apc = "rows" /\ strategy \in {"median-cut", "optimized"} /\ y' = y + 1) =>
        LET scanline == image[y + 1]
            produced ==
                \/ strategy = "median-cut"
                \/ y = 0
                \/ _calculate_palette_error(scanline, a_palettes[a_scb[y] + 1]) > error_threshold
            unrecorded ==
                \A res \in median_cut_quantize(scanline, NUM_COLORS) :
                    res.palette \notin DOMAIN palette_map
        IN  (Len(a_palettes) = NUM_PALETTES /\ produced /\ unrecorded) =>
                \A p \in 1..Len(a_palettes) :
                    TrueRowError(scanline, a_palettes[a_scb'[y + 1] + 1])
                        <= TrueRowError(scanline, a_palettes[p])]_vars

\* C14: in the global strategy the palettes are the NUM_PALETTES contiguous
\* chunks of NUM_COLORS entries of the large median-cut palette, in quantizer
\* order, and every processed row carries the index of the chunk of least total
\* true squared nearest-entry error against the row, the lowest such index
\* among equals.
C14_GlobalChunks ==
    (strategy = "global" /\ apc \in {"rows", "done"}) =>
        /\ \E res \in median_cut_quantize(AllPixels(image), NUM_PALETTES * NUM_COLORS) :
            /\ Len(a_palettes) = NUM_PALETTES
            /\ \A i \in 0..(NUM_PALETTES - 1) :
                /\ Len(a_palettes[i + 1]) = NUM_COLORS
                /\ \A k \in 0..(NUM_COLORS - 1) :
                    a_palettes[i + 1][k + 1] = res.palette[NUM_COLORS * i + k + 1]
        /\ \A r \in 1..y :
            LET chosen == a_scb[r] + 1
            IN  /\ \A p \in 1..NUM_PALETTES :
                    TrueRowError(image[r], a_palettes[chosen])
                        <= TrueRowError(image[r], a_palettes[p])
                /\ \A p \in 1..(chosen - 1) :
                    TrueRowError(image[r], a_palettes[chosen])
                        < TrueRowError(image[r], a_palettes[p])

\* ===================================================== Ditherer.dither
\* canvases of 8-bit pixels: grey (8,8,8) with one probed pixel; (16,0,0)
\* differs from black by 16 in one channel, (100,120,140) lies between the
\* palette entries
DitherProbes == {<<16, 0, 0>>, <<100, 120, 140>>, <<255, 255, 255>>, <<0, 0, 0>>}

DitherCanvases ==
    {ProbeGrid(h, SCAN_WIDTH, <<8, 8, 8>>, py, px, v) :
        h \in {1, HEIGHT}, py \in 1..HEIGHT, px \in 1..SCAN_WIDTH, v \in DitherProbes}

\* palettes of NUM_COLORS entries on the 12-bit grid: black, one of three
\* second entries, then white
DitherPalettes ==
    {[i \in 1..NUM_COLORS |->
        IF i = 1 THEN <<0, 0, 0>> ELSE IF i = 2 THEN second ELSE <<255, 255, 255>>] :
     second \in {<<17, 0, 0>>, <<17, 17, 17>>, <<255, 255, 255>>}}

InitDitherer ==
    /\ dimage \in DitherCanvases
    /\ dpalette \in DitherPalettes
    /\ ditherer \in DITHERING_ALGORITHMS
    /\ output = <<>>
    /\ indices = <<>>
    /\ dy = 0
    /\ dx = 0
    /\ dpc = "start"
    /\ FileIdle /\ QuantIdle /\ AssignIdle /\ SnapIdle /\ DitherIdle /\ ConvertIdle /\ WebIdle /\ OrderedIdle

\* the statements before the loops: output = image.astype(float).copy() in the
\* error-diffusion classes, indices = np.zeros(...)
dither_begin ==
    /\ dpc = "start"
    /\ output' = IF ditherer \in DiffusionMethods THEN dimage ELSE <<>>
    /\ indices' = ZeroGrid(Len(dimage), Len(dimage[1]))
    /\ dy' = 0
    /\ dx' = 0
    /\ dpc' = "loop"
    /\ UNCHANGED <<dimage, dpalette, ditherer>>
    /\ UNCHANGED <<fvars, mvars, avars, svars, pvars, cvars, wvars, ovars>>

\* one pass of "for x in range(width)" inside "for y in range(height)"
dither_pixel ==
    /\ dpc = "loop"
    /\ dy < Len(dimage)
    /\ LET r == DitherPixel(ditherer, dimage, output, dy, dx, dpalette)
       IN  /\ output' = r.output
           /\ indices' = [indices EXCEPT ![dy + 1][dx + 1] = r.idx]
    /\ IF dx + 1 < Len(dimage[1])
       THEN dx' = dx + 1 /\ dy' = dy
       ELSE dx' = 0 /\ dy' = dy + 1
    /\ UNCHANGED <<dimage, dpalette, ditherer, dpc>>
    /\ UNCHANGED <<fvars, mvars, avars, svars, pvars, cvars, wvars, ovars>>

\* return indices
dither_return ==
    /\ dpc = "loop"
    /\ dy = Len(dimage)
    /\ dpc' = "done"
    /\ UNCHANGED <<dimage, dpalette, ditherer, output, indices, dy, dx>>
    /\ UNCHANGED <<fvars, mvars, avars, svars, pvars, cvars, wvars, ovars>>

NextDitherer == dither_begin \/ dither_pixel \/ dither_return

SpecDitherer == InitDitherer /\ [][NextDitherer]_vars

\* the pixels dither() has passed, 1-based
Dithered(r, c) ==
    /\ dpc \in {"loop", "done"}
    /\ r \in 1..Len(dimage) /\ c \in 1..Len(dimage[1])
    /\ (r - 1) * Len(dimage[1]) + (c - 1) < dy * Len(dimage[1]) + dx

\* C15: with 'none', the index emitted for every pixel is the palette entry of
\* least true squared RGB distance to the pixel, the lowest index among equals.
C15_NearestNeighbour ==
    ditherer = "none" =>
        \A r \in 1..HEIGHT : \A c \in 1..SCAN_WIDTH :
            Dithered(r, c) =>
                LET k == indices[r][c] + 1
                    pixel == dimage[r][c]
                IN  /\ \A j \in DOMAIN dpalette :
                        TrueDistance(dpalette[k], pixel) <= TrueDistance(dpalette[j], pixel)
                    /\ \A j \in 1..(k - 1) :
                        TrueDistance(dpalette[k], pixel) < TrueDistance(dpalette[j], pixel)

\* the table of shares of the error-diffusion kernels, as <<row offset, column
\* offset, numerator, denominator>>
DiffusionTable(method) ==
    CASE method = "floyd-steinberg" ->
            {<<0, 1, 7, 16>>, <<1, -1, 3, 16>>, <<1, 0, 5, 16>>, <<1, 1, 1, 16>>}
      [] method = "atkinson" ->
            {<<0, 1, 1, 8>>, <<0, 2, 1, 8>>, <<1, -1, 1, 8>>, <<1, 0, 1, 8>>,
             <<1, 1, 1, 8>>, <<2, 0, 1, 8>>}
      [] method = "jjn" ->
            {<<0, 1, 7, 48>>, <<0, 2, 5, 48>>}
            \cup {<<1, c, <<3, 5, 7, 5, 3>>[c + 3], 48>> : c \in -2..2}
            \cup {<<2, c, <<1, 3, 5, 3, 1>>[c + 3], 48>> : c \in -2..2}
      [] method = "stucki" ->
            {<<0, 1, 8, 42>>, <<0, 2, 4, 42>>}
            \cup {<<1, c, <<2, 4, 8, 4, 2>>[c + 3], 42>> : c \in -2..2}
            \cup {<<2, c, <<1, 2, 4, 2, 1>>[c + 3], 42>> : c \in -2..2}
      [] method = "burkes" ->
            {<<0, 1, 8, 32>>, <<0, 2, 4, 32>>}
            \cup {<<1, c, <<2, 4, 8, 4, 2>>[c + 3], 32>> : c \in -2..2}

\* C17: in the five error-diffusion methods, the step at (dy, dx) stores the
\* palette colour at (dy, dx), adds to every table neighbour inside the canvas
\* its share num/den of the error (old value - palette colour), and changes no
\* other cell of the buffer.
C17_ErrorDiffusion ==
    [][(dpc = "loop" /\ ditherer \in DiffusionMethods /\ dy < Len(dimage)
            /\ <<dy', dx'>> # <<dy, dx>>) =>
        LET old == output[dy + 1][dx + 1]
            colour == dpalette[indices'[dy + 1][dx + 1] + 1]
        IN  \A r \in 1..Len(dimage) : \A c \in 1..Len(dimage[1]) :
                IF <<r, c>> = <<dy + 1, dx + 1>>
                THEN output'[r][c] = colour
                ELSE LET hits == {t \in DiffusionTable(ditherer) :
                                    dy + 1 + t[1] = r /\ dx + 1 + t[2] = c}
                     IN  \A ch \in 1..3 :
                            IF hits = {}
                            THEN output'[r][c][ch] = output[r][c][ch]
                            ELSE \A t \in hits :
                                    t[4] * (output'[r][c][ch] - output[r][c][ch])
                                        = t[3] * (old[ch] - colour[ch])]_vars

\* ========================================== apply_per_scanline_dithering
\* rows of 8-bit pixels: mid-grey between two palette entries, a row whose
\* first pixel differs, and a bright row
DitherRows ==
    {[x \in 1..SCAN_WIDTH |-> <<8, 8, 8>>],
     [x \in 1..SCAN_WIDTH |-> IF x = 1 THEN <<16, 0, 0>> ELSE <<8, 8, 8>>],
     [x \in 1..SCAN_WIDTH |-> <<100 + 40 * (x % 2), 120, 140>>]}

\* NUM_PALETTES palettes of NUM_COLORS entries on the 12-bit grid
DitherPaletteList ==
    [p \in 1..NUM_PALETTES |->
        [i \in 1..NUM_COLORS |->
            IF i = 1 THEN <<0, 0, 0>>
            ELSE IF i = 2
            THEN (IF p = 1 THEN <<17, 17, 17>> ELSE IF p = 2 THEN <<17, 0, 0>> ELSE <<136, 136, 136>>)
            ELSE <<255, 255, 255>>]]

DitherScbs == {Zeros(HEIGHT), [r \in 1..HEIGHT |-> (r - 1) % NUM_PALETTES]}

\* the registry's keys and a name it does not hold
DitherNames == DITHERING_ALGORITHMS \cup {"sierra"}

InitDither ==
    /\ p_pixels \in [1..HEIGHT -> DitherRows]
    /\ \E r \in 1..HEIGHT : \E row \in DitherRows : p_twin = [p_pixels EXCEPT ![r] = row]
    /\ p_palettes = DitherPaletteList
    /\ p_scb \in DitherScbs
    /\ p_method \in DitherNames
    /\ p_y = 0
    /\ p_indices = <<>>
    /\ p_twin_indices = <<>>
    /\ ppc = "start"
    /\ FileIdle /\ QuantIdle /\ AssignIdle /\ SnapIdle /\ DithererIdle /\ ConvertIdle /\ WebIdle /\ OrderedIdle

\* lines 232-243: the registry lookup, then the empty grid
dither_check ==
    /\ ppc = "start"
    /\ \/ /\ p_method \notin DITHERING_ALGORITHMS
          /\ ppc' = "error"
          /\ UNCHANGED <<p_indices, p_twin_indices>>
       \/ /\ p_method \in DITHERING_ALGORITHMS
          /\ p_indices' = ZeroGrid(HEIGHT, SCAN_WIDTH)
          /\ p_twin_indices' = ZeroGrid(HEIGHT, SCAN_WIDTH)
          /\ ppc' = "rows"
    /\ p_y' = 0
    /\ UNCHANGED <<p_pixels, p_twin, p_palettes, p_scb, p_method>>
    /\ UNCHANGED <<fvars, mvars, avars, svars, zvars, cvars, wvars, ovars>>

\* lines 245-251: one pass of "for y in range(200)", on both canvases
dither_scanline ==
    /\ ppc = "rows"
    /\ p_y < HEIGHT
    /\ p_indices' =
        [p_indices EXCEPT ![p_y + 1] = DitherScanline(p_method, p_pixels, p_palettes, p_scb, p_y)]
    /\ p_twin_indices' =
        [p_twin_indices EXCEPT ![p_y + 1] = DitherScanline(p_method, p_twin, p_palettes, p_scb, p_y)]
    /\ p_y' = p_y + 1
    /\ UNCHANGED <<p_pixels, p_twin, p_palettes, p_scb, p_method, ppc>>
    /\ UNCHANGED <<fvars, mvars, avars, svars, zvars, cvars, wvars, ovars>>

\* line 253
dither_done ==
    /\ ppc = "rows"
    /\ p_y = HEIGHT
    /\ ppc' = "done"
    /\ UNCHANGED <<p_pixels, p_twin, p_palettes, p_scb, p_method, p_y, p_indices, p_twin_indices>>
    /\ UNCHANGED <<fvars, mvars, avars, svars, zvars, cvars, wvars, ovars>>

NextDither == dither_check \/ dither_scanline \/ dither_done

SpecDither == InitDither /\ [][NextDither]_vars

\* C16: for every dither method, two canvases dithered with the same palettes
\* and SCBs get the same indices on every row on which they agree, whatever
\* their other rows hold.
C16_RowIndependence ==
    ppc \in {"rows", "done"} =>
        \A r \in 1..p_y :
            p_pixels[r] = p_twin[r] => p_indices[r] = p_twin_indices[r]

\* an error-diffusion run whose canvases agree on one row and differ, with
\* different output, on a neighbouring one
C16_Witness ==
    /\ ppc = "done"
    /\ p_method = "floyd-steinberg"
    /\ \E r \in 2..HEIGHT :
        /\ p_pixels[r] = p_twin[r]
        /\ p_indices[r] = p_twin_indices[r]
        /\ \E c \in 1..SCAN_WIDTH : p_indices[r][c] # 0
        /\ p_pixels[r - 1] # p_twin[r - 1]
        /\ p_indices[r - 1] # p_twin_indices[r - 1]

\* the palette entry (1-based) of least true squared distance to v, the lowest
\* among equals
TrueNearest(palette, v) ==
    CHOOSE k \in DOMAIN palette :
        /\ \A j \in DOMAIN palette : TrueDistance(palette[k], v) <= TrueDistance(palette[j], v)
        /\ \A j \in 1..(k - 1) : TrueDistance(palette[k], v) < TrueDistance(palette[j], v)

\* (B[yy mod n, xx mod n] - 0.5) * 32 for the matrix B of the ditherer, whose
\* entries the model holds in sixteenths
Perturbation(yy, xx) ==
    2 * _generate_bayer_matrix(matrix_size)[(yy % matrix_size) + 1][(xx % matrix_size) + 1] - 16

\* C18: with ordered dithering the index of canvas pixel (y, x) is the palette
\* entry nearest to the pixel perturbed by (B[y mod n, x mod n] - 0.5) * 32 and
\* clamped to 0..255: canvas row y uses row y mod n of the matrix.
C18_OrderedThresholdRow ==
    (p_method \in OrderedMethods /\ ppc \in {"rows", "done"}) =>
        \A r \in 1..p_y : \A c \in 1..SCAN_WIDTH :
            LET perturbed ==
                    [ch \in 1..3 |-> Clip(p_pixels[r][c][ch] + Perturbation(r - 1, c - 1))]
            IN  p_indices[r][c] + 1 = TrueNearest(p_palettes[p_scb[r] + 1], perturbed)

\* =========================================================== convert_image
\* The canvas is the array `pixels` after line 51 (loaded, resized to the
\* canvas size and, if asked, linearised): HEIGHT rows of WIDTH 8-bit pixels.
ConvertCanvases ==
    {[r \in 1..HEIGHT |-> [x \in 1..WIDTH |-> c]] :
        c \in {<<8, 8, 8>>, <<16, 0, 0>>, <<100, 120, 140>>}}
    \cup {[r \in 1..HEIGHT |-> [x \in 1..WIDTH |-> AColor((r + x) % 12)]],
          [r \in 1..HEIGHT |-> [x \in 1..WIDTH |-> AColor((2 * r + 5 * x) % 12)]]}

\* the three names convert_image dispatches on, and one it does not know
QuantizeNames == {"median-cut", "global", "optimized", "octree"}

InitConvert ==
    /\ image \in ConvertCanvases
    /\ dither_method \in DitherNames
    /\ quantize_method \in QuantizeNames
    /\ optimize_palettes \in BOOLEAN
    /\ c_error_threshold \in {0, 2000}
    /\ c_indices = <<>>
    /\ cpc = "start"
    /\ strategy = "none" /\ error_threshold = 0 /\ y = 0
    /\ a_palettes = <<>> /\ palette_map = <<>> /\ a_scb = <<>> /\ apc = "idle"
    /\ FileIdle /\ QuantIdle /\ SnapIdle /\ DithererIdle /\ DitherIdle /\ WebIdle /\ OrderedIdle

\* lines 54-64: the choice of the palette strategy
convert_dispatch ==
    /\ cpc = "start"
    /\ IF optimize_palettes \/ quantize_method = "optimized"
       THEN /\ strategy' = "optimized"
            /\ error_threshold' = c_error_threshold
            /\ apc' = "start"
            /\ cpc' = "palettes"
       ELSE IF quantize_method = "median-cut"
       THEN /\ strategy' = "median-cut"
            /\ error_threshold' = error_threshold
            /\ apc' = "start"
            /\ cpc' = "palettes"
       ELSE IF quantize_method = "global"
       THEN /\ strategy' = "global"
            /\ error_threshold' = error_threshold
            /\ apc' = "start"
            /\ cpc' = "palettes"
       ELSE /\ cpc' = "error"
            /\ UNCHANGED <<strategy, error_threshold, apc>>
    /\ UNCHANGED <<image, y, a_palettes, palette_map, a_scb>>
    /\ UNCHANGED <<dither_method, quantize_method, optimize_palettes, c_error_threshold, c_indices>>
    /\ UNCHANGED <<fvars, mvars, svars, zvars, pvars, wvars, ovars>>

\* lines 66-69: palettes_12bit = convert_palettes_to_iigs(palettes)
convert_snap ==
    /\ cpc = "palettes"
    /\ apc = "done"
    /\ s_palettes' = a_palettes
    /\ iigs_palettes' = convert_palettes_to_iigs(a_palettes)
    /\ spc' = "done"
    /\ cpc' = "snapped"
    /\ UNCHANGED <<dither_method, quantize_method, optimize_palettes, c_error_threshold, c_indices>>
    /\ UNCHANGED <<fvars, mvars, avars, zvars, pvars, wvars, ovars>>

\* lines 72-75: apply_per_scanline_dithering(pixels, palettes_rgb, scb_bytes, ...)
convert_dither ==
    /\ cpc = "snapped"
    /\ IF dither_method \notin DITHERING_ALGORITHMS
       THEN /\ cpc' = "error"
            /\ c_indices' = c_indices
       ELSE /\ c_indices' = apply_per_scanline_dithering(image, iigs_palettes, a_scb, dither_method)
            /\ cpc' = "dithered"
    /\ UNCHANGED <<dither_method, quantize_method, optimize_palettes, c_error_threshold>>
    /\ UNCHANGED <<fvars, mvars, avars, svars, zvars, pvars, wvars, ovars>>

\* lines 78-79: write_3200_file(output_path, pixel_indices, scb_bytes, palettes_12bit)
convert_write ==
    /\ cpc = "dithered"
    /\ pixel_indices' = c_indices
    /\ scb_bytes' = [itemsize |-> 1, vals |-> a_scb]
    /\ palettes' = iigs_palettes
    /\ IF WriteAccepts(c_indices, [itemsize |-> 1, vals |-> a_scb], iigs_palettes)
       THEN /\ disk' = [exists |-> TRUE,
                        bytes |-> FileBytes(c_indices, [itemsize |-> 1, vals |-> a_scb],
                                            iigs_palettes)]
            /\ fpc' = "written"
            /\ cpc' = "written"
       ELSE /\ disk' = disk
            /\ fpc' = "write_error"
            /\ cpc' = "error"
    /\ readback' = readback
    /\ UNCHANGED <<dither_method, quantize_method, optimize_palettes, c_error_threshold, c_indices>>
    /\ UNCHANGED <<mvars, avars, svars, zvars, pvars, wvars, ovars>>

NextConvert ==
    \/ convert_dispatch
    \/ assign_begin \/ per_scanline_row \/ optimized_row \/ global_row \/ assign_return
    \/ convert_snap \/ convert_dither \/ convert_write

SpecConvert == InitConvert /\ [][NextConvert]_vars

\* C19: whenever dither_method is not a registered algorithm or quantize_method
\* is not one of 'median-cut', 'global', 'optimized', convert_image ends with an
\* error and never returns normally, whatever the other options are.
C19_UnknownAlgorithm ==
    (dither_method \notin DITHERING_ALGORITHMS
        \/ quantize_method \notin {"median-cut", "global", "optimized"}) =>
        cpc # "written"

\* every channel of every entry is one of the sixteen values 17 n
OnGrid(pals) ==
    \A p \in DOMAIN pals : \A i \in DOMAIN pals[p] : \A ch \in 1..3 :
        pals[p][i][ch] \in GridValues

\* C24: the index grid changes only in the dithering stage, which runs after
\* the palettes have been snapped to the 12-bit grid; the grid is the result of
\* dithering every row against the snapped palettes; and for every row y the
\* palette it was dithered against is what slot SCB[y] of the written file
\* decodes to.
C24_StageOrdering ==
    /\ [][c_indices' # c_indices => (cpc = "snapped" /\ spc = "done" /\ OnGrid(iigs_palettes))]_vars
    /\ [](cpc \in {"dithered", "written"} =>
            /\ OnGrid(iigs_palettes)
            /\ c_indices = apply_per_scanline_dithering(image, iigs_palettes, a_scb, dither_method))
    /\ [](cpc = "written" =>
            \A r \in 1..HEIGHT :
                /\ ReadResult(disk.bytes).scb_bytes[r] = a_scb[r]
                /\ ReadResult(disk.bytes).palettes[a_scb[r] + 1] = iigs_palettes[a_scb[r] + 1])

\* a written file whose row 2 uses a second palette, from palettes that were
\* off the grid before the snap
C24_Witness ==
    /\ cpc = "written"
    /\ ~OnGrid(a_palettes)
    /\ a_scb[2] # 0
    /\ iigs_palettes[a_scb[2] + 1] # a_palettes[a_scb[2] + 1]
    /\ \E c \in 1..WIDTH : c_indices[2][c] # 0

\* ================================================ read_3200_file on any file
\* a file of n bytes, all bg except one probed byte
ProbeBlob(n, bg, pos, v) == [i \in 1..n |-> IF i = pos THEN v ELSE bg]

\* files of the right size, with every byte value at every offset, and files
\* of other sizes (empty, one short, one long, double)
ReadBlobs ==
    {ProbeBlob(FILE_SIZE, bg, pos, v) : bg \in {0, 255}, pos \in 1..FILE_SIZE, v \in 0..255}
    \cup {ProbeBlob(n, bg, 1, 7) :
            n \in {0, FILE_SIZE - 1, FILE_SIZE + 1, 2 * FILE_SIZE}, bg \in {0, 255}}

InitRead ==
    /\ disk \in {[exists |-> TRUE, bytes |-> b] : b \in ReadBlobs}
    /\ pixel_indices = <<>> /\ scb_bytes = <<>> /\ palettes = <<>>
    /\ readback = NoResult
    /\ fpc = "written"
    /\ QuantIdle /\ AssignIdle /\ SnapIdle /\ DithererIdle /\ DitherIdle /\ ConvertIdle /\ WebIdle /\ OrderedIdle

NextRead == read_3200_file

SpecRead == InitRead /\ [][NextRead]_vars

\* C20: read_3200_file raises for every file whose length is not FILE_SIZE, and
\* for every file of FILE_SIZE bytes it returns a HEIGHT x WIDTH grid of indices
\* in 0..15, HEIGHT SCB bytes, and exactly NUM_PALETTES palettes of NUM_COLORS
\* RGB entries.
C20_ReadAcceptsExactSize ==
    fpc \in {"read", "read_error"} =>
        /\ Len(disk.bytes) # FILE_SIZE => fpc = "read_error" /\ readback = NoResult
        /\ Len(disk.bytes) = FILE_SIZE =>
            /\ fpc = "read"
            /\ Shape2(readback.pixel_indices) = <<HEIGHT, WIDTH>>
            /\ \A r \in 1..HEIGHT :
                /\ Len(readback.pixel_indices[r]) = WIDTH
                /\ \A c \in 1..WIDTH : readback.pixel_indices[r][c] \in 0..15
            /\ Len(readback.scb_bytes) = HEIGHT
            /\ \A r \in 1..HEIGHT : readback.scb_bytes[r] \in 0..255
            /\ Len(readback.palettes) = NUM_PALETTES
            /\ \A p \in 1..NUM_PALETTES :
                /\ Len(readback.palettes[p]) = NUM_COLORS
                /\ \A c \in 1..NUM_COLORS :
                    /\ Len(readback.palettes[p][c]) = 3
                    /\ \A ch \in 1..3 : readback.palettes[p][c][ch] \in 0..255

\* a file of the right size that no write_3200_file call produces: all bytes
\* 255, so both nibbles of every pixel byte and bits 12-15 of every colour word
\* are set
C20_Witness ==
    /\ fpc = "read"
    /\ \A i \in 1..FILE_SIZE : disk.bytes[i] = 255
    /\ readback.pixel_indices[1][1] = 15
    /\ readback.scb_bytes[1] = 255
    /\ readback.palettes[NUM_PALETTES][NUM_COLORS] = <<255, 255, 255>>

\* ================================================== packer preconditions
\* the three ways a call can break write_3200_file's shape rules
BadShapeCall ==
    \/ Shape2(pixel_indices) # <<HEIGHT, WIDTH>>
    \/ Len(scb_bytes.vals) # HEIGHT
    \/ Len(palettes) > NUM_PALETTES

\* C21: when pixel_indices is not HEIGHT x WIDTH, or scb_bytes is not of length
\* HEIGHT, or more than NUM_PALETTES palettes are given, write_3200_file ends
\* with an error and the output path holds nothing.
C21_PackerPreconditions ==
    (BadShapeCall /\ fpc # "start") => (fpc = "write_error" /\ disk = NoFile)

C21_Witness ==
    /\ fpc = "write_error"
    /\ disk = NoFile
    /\ Len(palettes) = NUM_PALETTES + 1
    /\ Shape2(pixel_indices) = <<HEIGHT, WIDTH>>
    /\ Len(scb_bytes.vals) = HEIGHT

\* ================================================ colour round trip, twice
\* iigs12_to_rgb24(rgb24_to_iigs12(rgb))
RoundTrip(rgb) == iigs12_to_rgb24(rgb24_to_iigs12(rgb))

\* C22: the colour round trip is idempotent: applied to its own result it
\* returns that result, for every channel value 0..255.
C22_RoundTripIdempotent ==
    spc = "done" =>
        \A p \in DOMAIN s_palettes : \A i \in 1..NUM_COLORS :
            /\ iigs_palettes[p][i] = RoundTrip(s_palettes[p][i])
            /\ RoundTrip(iigs_palettes[p][i]) = iigs_palettes[p][i]

C22_Witness ==
    /\ spc = "done"
    /\ \E i \in 1..NUM_COLORS :
        /\ s_palettes[1][i] = <<136, 100, 136>>
        /\ iigs_palettes[1][i] = <<136, 102, 136>>
        /\ RoundTrip(iigs_palettes[1][i]) = <<136, 102, 136>>

\* ============================================================ the web server
\* sessions one run creates
MaxSessions == 2

\* config.py
ALLOWED_EXTENSIONS == {"png", "jpg", "jpeg", "gif", "bmp", "tiff", "tif"}

\* A file name is <<stem>> (no dot) or <<stem, ext>> (stem "." ext).
\* allowed_file: '.' in filename and the text after the last dot is allowed
allowed_file(filename) == Len(filename) = 2 /\ filename[2] \in ALLOWED_EXTENSIONS

\* f"original{Path(secure_filename(filename)).suffix}": secure_filename strips
\* leading dots, so ".png" becomes "png", which has no suffix
OriginalName(filename) ==
    IF filename[1] = "" THEN <<"original">> ELSE <<"original", filename[2]>>

\* session_folder.glob("original.*")
GlobOriginal(files) == {f \in files : Len(f) = 2 /\ f[1] = "original"}

\* the parameters of convert_image (pipeline.py, lines 18-28)
convert_image_parameters ==
    {"input_path", "output_path", "dither_method", "quantize_method", "aspect_correct",
     "resize_filter", "use_linear_rgb", "optimize_palettes", "error_threshold"}

\* the keyword arguments of the call in convert() (app.py, lines 153-164)
convert_call_keywords ==
    {"input_path", "output_path", "dither_method", "quantize_method", "aspect_correct",
     "use_linear_rgb", "optimize_palettes", "error_threshold", "gamma", "brightness"}

\* how the call convert_image(**keywords) ends: Python binds the arguments
\* before the body runs, and a keyword that names no parameter is a TypeError;
\* the body ends as convert_image's dispatch and registry lookup decide
ConvertCall(keywords, options) ==
    IF ~(keywords \subseteq convert_image_parameters) THEN "TypeError"
    ELSE IF ~(options.optimize_palettes
              \/ options.quantize \in {"optimized", "median-cut", "global"})
    THEN "ValueError"
    ELSE IF options.dither \notin DITHERING_ALGORITHMS THEN "ValueError"
    ELSE "ok"

\* cleanup_old_sessions(): the folders older than the timeout are removed
cleanup_old_sessions(folders, old) == [id \in DOMAIN folders \ old |-> folders[id]]

\* get_session_folder(id): mkdir(parents=True, exist_ok=True)
get_session_folder(folders, id) ==
    [i \in DOMAIN folders \cup {id} |-> IF i \in DOMAIN folders THEN folders[i] ELSE {}]

AddFiles(folders, id, names) == [folders EXCEPT ![id] = @ \cup names]

\* session ids: 1..MaxSessions are the uuids of uploads, 0 is an id that no
\* upload has answered with
SessionIds == 0..MaxSessions

UploadNames == {<<"photo", "png">>, <<"", "png">>, <<"notes", "txt">>, <<"">>}

\* the uploads: no 'image' part, or a file of one of the names
Uploads ==
    {[has_image |-> FALSE, filename |-> <<"">>]}
    \cup {[has_image |-> TRUE, filename |-> f] : f \in UploadNames}

WebOptions ==
    [dither : {"atkinson", "sierra"},
     quantize : {"median-cut", "octree"},
     optimize_palettes : BOOLEAN]

DefaultOptions == [dither |-> "atkinson", quantize |-> "median-cut", optimize_palettes |-> FALSE]

\* the JSON bodies of convert: without an id, or an id and options
ConvertBodies ==
    {[has_id |-> FALSE, id |-> 0, options |-> DefaultOptions]}
    \cup {[has_id |-> TRUE, id |-> i, options |-> o] : i \in SessionIds, o \in WebOptions}

InitWeb ==
    /\ w_folders = <<>>
    /\ w_old = {}
    /\ w_issued = {}
    /\ w_request = [route |-> "none"]
    /\ w_response = [status |-> 0, keys |-> {}]
    /\ FileIdle /\ QuantIdle /\ AssignIdle /\ SnapIdle
    /\ DithererIdle /\ DitherIdle /\ ConvertIdle /\ OrderedIdle

\* POST /api/upload
upload_image ==
    \E up \in Uploads :
        LET has_image == up.has_image
            filename == up.filename
            swept == cleanup_old_sessions(w_folders, w_old)
            Fresh == (1..MaxSessions) \ (w_issued \cup DOMAIN swept)
        IN  /\ w_request' = [route |-> "upload", has_image |-> has_image, filename |-> filename]
            /\ w_old' = {}
            /\ IF ~has_image \/ filename = <<"">> \/ ~allowed_file(filename)
               THEN /\ w_folders' = swept
                    /\ w_issued' = w_issued
                    /\ w_response' = [status |-> 400, keys |-> {"error"}]
               ELSE /\ Fresh # {}
                    /\ \E session_id \in Fresh :
                        /\ w_folders' = AddFiles(get_session_folder(swept, session_id),
                                                 session_id, {OriginalName(filename)})
                        /\ w_issued' = w_issued \cup {session_id}
                        /\ w_response' = [status |-> 200, keys |-> {"id", "preview_url", "info"}]
    /\ UNCHANGED <<fvars, mvars, avars, svars, zvars, pvars, cvars, ovars>>

\* POST /api/convert
convert ==
    \E body \in ConvertBodies :
      LET has_id == body.has_id
          session_id == body.id
          options == body.options
      IN
        /\ w_request' = [route |-> "convert", has_id |-> has_id, id |-> session_id,
                         options |-> options]
        /\ IF ~has_id
           THEN /\ w_folders' = w_folders
                /\ w_response' = [status |-> 400, keys |-> {"error"}]
           ELSE LET made == get_session_folder(w_folders, session_id)
                IN  IF GlobOriginal(made[session_id]) = {}
                    THEN /\ w_folders' = made
                         /\ w_response' = [status |-> 404, keys |-> {"error"}]
                    ELSE IF ConvertCall(convert_call_keywords, options) = "ok"
                    THEN /\ w_folders' = AddFiles(made, session_id,
                                            {<<"output", "3200">>, <<"preview", "png">>})
                         /\ w_response' =
                                [status |-> 200,
                                 keys |-> {"preview_url", "stats", "download_url",
                                           "processing_time"}]
                    ELSE /\ w_folders' = made
                         /\ w_response' = [status |-> 500, keys |-> {"error"}]
        /\ UNCHANGED <<w_old, w_issued>>
    /\ UNCHANGED <<fvars, mvars, avars, svars, zvars, pvars, cvars, ovars>>

\* GET /api/download/<session_id>
download ==
    \E session_id \in SessionIds :
        /\ w_request' = [route |-> "download", id |-> session_id]
        /\ w_response' =
            IF session_id \in DOMAIN w_folders /\ <<"output", "3200">> \in w_folders[session_id]
            THEN [status |-> 200, keys |-> {"file"}]
            ELSE [status |-> 404, keys |-> {"error"}]
        /\ UNCHANGED <<w_folders, w_old, w_issued>>
    /\ UNCHANGED <<fvars, mvars, avars, svars, zvars, pvars, cvars, ovars>>

\* time passes: a session folder becomes older than SESSION_TIMEOUT_SECONDS
session_expires ==
    /\ \E session_id \in DOMAIN w_folders \ w_old : w_old' = w_old \cup {session_id}
    /\ UNCHANGED <<w_folders, w_issued, w_request, w_response>>
    /\ UNCHANGED <<fvars, mvars, avars, svars, zvars, pvars, cvars, ovars>>

NextWeb == upload_image \/ convert \/ download \/ session_expires

SpecWeb == InitWeb /\ [][NextWeb]_vars

\* the options the documentation of convert() lists
ValidOptions(options) ==
    /\ options.dither \in DITHERING_ALGORITHMS
    /\ options.quantize \in {"median-cut", "global", "optimized"}

\* a convert request that names the id of a successful upload, with valid options
GoodConvert(req, issued) ==
    /\ req.route = "convert"
    /\ req.has_id
    /\ req.id \in issued
    /\ ValidOptions(req.options)

\* C23: a convert request that names the session id of a successful upload, with
\* valid options, is answered with preview_url, stats and download_url and no
\* error, and a download of that id that follows it returns the converted file.
C23_WebSessionFlow ==
    [][/\ GoodConvert(w_request', w_issued) =>
            /\ w_response'.status = 200
            /\ {"preview_url", "stats", "download_url"} \subseteq w_response'.keys
            /\ "error" \notin w_response'.keys
       /\ (GoodConvert(w_request, w_issued) /\ w_request'.route = "download"
            /\ w_request'.id = w_request.id) =>
            /\ w_response'.status = 200
            /\ w_response'.keys = {"file"}]_vars

\* ========================================================= OrderedDitherer
\* the sizes OrderedDitherer is built with: the three supported ones, their
\* neighbours, and the next power of two
BayerSizes == {0, 1, 2, 3, 4, 5, 6, 7, matrix_size, matrix_size + 1, 2 * matrix_size}

\* pixel positions: one more than the largest matrix per side, so that every
\* size wraps around
LookupPositions == 0..matrix_size

\* grey levels of the pixel that is perturbed
LookupValues == {0, 8, 128, 255}

\* the palette of the lookups: black and white on the 12-bit grid
LookupPalette == [i \in 1..NUM_COLORS |-> IF i = 1 THEN <<0, 0, 0>> ELSE <<255, 255, 255>>]

\* the sizes of the if-chain of _generate_bayer_matrix; every other size
\* reaches "raise ValueError"
SupportedSizes == {2, 4, 8}

InitOrdered ==
    /\ o_size \in BayerSizes
    /\ bayer_matrix = <<>>
    /\ o_y = 0 /\ o_x = 0 /\ o_value = 0 /\ o_perturbed = 0 /\ o_index = 0
    /\ opc = "start"
    /\ FileIdle /\ QuantIdle /\ AssignIdle /\ SnapIdle
    /\ DithererIdle /\ DitherIdle /\ ConvertIdle /\ WebIdle

\* OrderedDitherer.__init__(matrix_size)
OrderedDitherer_init ==
    /\ opc = "start"
    /\ \/ /\ o_size \notin SupportedSizes
          /\ opc' = "error"
          /\ bayer_matrix' = bayer_matrix
       \/ /\ o_size \in SupportedSizes
          /\ bayer_matrix' = _generate_bayer_matrix(o_size)
          /\ opc' = "built"
    /\ UNCHANGED <<o_size, o_y, o_x, o_value, o_perturbed, o_index>>
    /\ UNCHANGED <<fvars, mvars, avars, svars, zvars, pvars, cvars, wvars>>

\* OrderedDitherer.dither, one pass of the inner loop (lines 326-335) on a grey
\* pixel (v, v, v) at (y, x): with the threshold t / 16 the perturbation
\* (threshold - 0.5) * 32 is 2 t - 16
ordered_pixel ==
    /\ opc = "built"
    /\ \E yy \in LookupPositions : \E xx \in LookupPositions : \E v \in LookupValues :
        LET threshold == bayer_matrix[(yy % o_size) + 1][(xx % o_size) + 1]
            perturbed == v + (2 * threshold - 16)
            pixel == [ch \in 1..3 |-> Clip(perturbed)]
        IN  /\ o_y' = yy
            /\ o_x' = xx
            /\ o_value' = v
            /\ o_perturbed' = perturbed
            /\ o_index' = _find_closest_color(pixel, LookupPalette, "float")
    /\ UNCHANGED <<o_size, bayer_matrix, opc>>
    /\ UNCHANGED <<fvars, mvars, avars, svars, zvars, pvars, cvars, wvars>>

NextOrdered == OrderedDitherer_init \/ ordered_pixel

SpecOrdered == InitOrdered /\ [][NextOrdered]_vars

\* the spec's recursion B(2n) = [[4 B(n), 4 B(n) + 2], [4 B(n) + 3, 4 B(n) + 1]] / 4
\* applied to a matrix B of thresholds held in sixteenths: (4 b + k) / 4 is
\* b + k / 4, that is b + 4 k sixteenths
SpecRecursion(B) ==
    LET n == Len(B)
    IN  [i \in 1..(2 * n) |-> [j \in 1..(2 * n) |->
            B[((i - 1) % n) + 1][((j - 1) % n) + 1]
                + 4 * (IF i <= n /\ j <= n THEN 0
                       ELSE IF i <= n THEN 2
                       ELSE IF j <= n THEN 3
                       ELSE 1)]]

\* the same block pattern on integer matrices: M(2n) = [[4 M, 4 M + 2],
\* [4 M + 3, 4 M + 1]], to be divided by (2n)^2
IntegerRecursion(M) ==
    LET n == Len(M)
    IN  [i \in 1..(2 * n) |-> [j \in 1..(2 * n) |->
            4 * M[((i - 1) % n) + 1][((j - 1) % n) + 1]
                + (IF i <= n /\ j <= n THEN 0
                   ELSE IF i <= n THEN 2
                   ELSE IF j <= n THEN 3
                   ELSE 1)]]

\* [[0,2],[3,1]] / 4 in sixteenths
B2 == <<<<0, 8>>, <<12, 4>>>>

\* C25 as stated: size 2 gives [[0,2],[3,1]]/4; sizes 4 and 8 each give the
\* spec's recursion applied to the matrix of half the size; every other size
\* raises.
C25_BayerRecursion ==
    opc # "start" =>
        /\ o_size = 2 => (opc = "built" /\ bayer_matrix = B2)
        /\ o_size \in {4, 8} =>
            (opc = "built" /\ bayer_matrix = SpecRecursion(_generate_bayer_matrix(o_size \div 2)))
        /\ o_size \notin {2, 4, 8} => opc = "error"

\* C25 amended: size 2 gives [[0,2],[3,1]]/4; size 4 gives the integer
\* recursion of [[0,2],[3,1]] divided by 16; size 8 gives the spec's recursion
\* applied to the size-4 matrix; every other size raises.
C25_BayerConstruction ==
    opc # "start" =>
        /\ o_size = 2 => (opc = "built" /\ bayer_matrix = B2)
        /\ o_size = 4 =>
            (opc = "built" /\ bayer_matrix = IntegerRecursion(<<<<0, 2>>, <<3, 1>>>>))
        /\ o_size = 8 =>
            (opc = "built" /\ bayer_matrix = SpecRecursion(_generate_bayer_matrix(4)))
        /\ o_size \notin {2, 4, 8} => opc = "error"

C25_Witness ==
    /\ opc = "built"
    /\ o_size = 8
    /\ bayer_matrix[1][5] = 8
    /\ bayer_matrix[5][1] = 12
    /\ bayer_matrix[5][5] = 4

\* the thresholds of the matrix, as a set of sixteenths
Thresholds16 == {bayer_matrix[i][j] : i \in 1..o_size, j \in 1..o_size}

\* C30: for each supported size n the matrix holds every k / n^2, k = 0..n^2-1,
\* exactly once, so every threshold lies in [0, 1) and every perturbation
\* (B - 0.5) * 32 lies in [-16, 16).
C30_ThresholdRange ==
    opc = "built" =>
        /\ {t * o_size * o_size : t \in Thresholds16} = {16 * k : k \in 0..(o_size * o_size - 1)}
        /\ Cardinality(Thresholds16) = o_size * o_size
        /\ \A t \in Thresholds16 : 0 <= t /\ t < 16
        /\ (o_perturbed - o_value >= -16 /\ o_perturbed - o_value < 16)

\* ===================================================== the median-cut split
\* how often colour c occurs in bag b
CountIn(b, c) == IF c \in DOMAIN b THEN b[c] ELSE 0

\* the split of one iteration: the bucket the loop took and the two it added
Taken == buckets[_find_largest_bucket(buckets)]

\* the range max - min of channel ch over a bag
RangeOf(b, ch) ==
    LET vs == {c[ch] : c \in DOMAIN b}
    IN  (CHOOSE hi \in vs : \A v \in vs : v <= hi) - (CHOOSE lo \in vs : \A v \in vs : lo <= v)

\* an iteration of the while loop that split a bucket
SplitStep == mc_pc = "loop" /\ Len(buckets') = Len(buckets) + 1

\* C26: a split of a bucket of n >= 2 pixels gives halves of floor(n/2) and
\* ceil(n/2) pixels whose multiset union is the bucket, ordered on the channel
\* of largest range (the lowest-indexed one on ties): no pixel of the first half
\* exceeds a pixel of the second half on that channel.
C26_MedianCutSplit ==
    [][(SplitStep /\ BagSize(Taken) >= 2) =>
        LET n == BagSize(Taken)
            bucket1 == buckets'[Len(buckets') - 1]
            bucket2 == buckets'[Len(buckets')]
        IN  /\ BagSize(bucket1) = n \div 2
            /\ BagSize(bucket2) = n - (n \div 2)
            /\ \A c \in DOMAIN Taken \cup DOMAIN bucket1 \cup DOMAIN bucket2 :
                CountIn(bucket1, c) + CountIn(bucket2, c) = CountIn(Taken, c)
            /\ \E ch \in 1..3 :
                /\ \A o \in 1..3 : RangeOf(Taken, o) <= RangeOf(Taken, ch)
                /\ \A o \in 1..(ch - 1) : RangeOf(Taken, o) < RangeOf(Taken, ch)
                /\ \A c1 \in DOMAIN bucket1 : \A c2 \in DOMAIN bucket2 : c1[ch] <= c2[ch]]_vars

\* three pixels split into one and two, on an input whose three channels have
\* the same range
C26_Witness ==
    /\ mc_pc \in {"loop", "done"}
    /\ Len(mc_pixels) = 3
    /\ <<0, 0, 0>> \in SeqRange(mc_pixels) /\ <<255, 255, 255>> \in SeqRange(mc_pixels)
    /\ Len(buckets) = 2
    /\ BagSize(buckets[1]) = 1
    /\ BagSize(buckets[2]) = 2

\* C27: on an input with more than num_colors distinct colours every iteration
\* takes a bucket of at least 2 pixels and splits it into two non-empty halves
\* (the failed-split branch is never taken), the buckets always partition the
\* input pixels, and the loop ends after num_colors - 1 splits with num_colors
\* non-empty buckets: each iteration adds one bucket to the one the loop starts
\* with, an iteration is possible as long as fewer than num_colors buckets
\* exist, and the function returns with exactly num_colors of them.
C27_MedianCutLoop ==
    /\ [][(mc_pc = "loop" /\ buckets' # buckets) =>
            /\ BagSize(Taken) >= 2
            /\ Len(buckets') = Len(buckets) + 1
            /\ BagSize(buckets'[Len(buckets') - 1]) >= 1
            /\ BagSize(buckets'[Len(buckets')]) >= 1
            /\ mc_pc' = "loop"]_vars
    /\ []((DistinctColors > num_colors /\ mc_pc # "start") =>
            /\ mc_pc \in {"loop", "done"}
            /\ Len(buckets) \in 1..num_colors
            /\ \A i \in DOMAIN buckets : BagSize(buckets[i]) >= 1
            /\ \A c \in SeqRange(mc_pixels) \cup UNION {DOMAIN buckets[i] : i \in DOMAIN buckets} :
                SeqSum([i \in DOMAIN buckets |-> CountIn(buckets[i], c)]) = CountIn(BagOf(mc_pixels), c)
            /\ mc_pc = "done" => Len(buckets) = num_colors)
    /\ []((DistinctColors > num_colors /\ mc_pc = "loop" /\ Len(buckets) < num_colors) =>
            /\ LoopStep(buckets) # {}
            /\ \A st \in LoopStep(buckets) :
                ~st.broke /\ Len(st.buckets) = Len(buckets) + 1)

C27_Witness ==
    /\ mc_pc = "done"
    /\ DistinctColors = 4
    /\ num_colors = 3
    /\ Len(buckets) = 3
    /\ BagSize(buckets[1]) = 2

\* ================================================ the recorded palette list
\* the SCB values of the rows processed so far
AssignedScbs == {a_scb[r] : r \in 1..y}

\* C28: in generate_per_scanline_palettes and optimized_quantize, after every
\* processed row (before the padding) no two recorded palettes are identical,
\* palette_map holds exactly the recorded palettes and maps each to its list
\* index, and the SCB values assigned so far are exactly 0 .. n-1, n being the
\* number of recorded palettes.
C28_PaletteListInvariant ==
    (apc = "rows" /\ strategy \in {"median-cut", "optimized"} /\ y >= 1) =>
        /\ \A i, j \in DOMAIN a_palettes : a_palettes[i] = a_palettes[j] => i = j
        /\ DOMAIN palette_map = {a_palettes[i] : i \in DOMAIN a_palettes}
        /\ \A i \in DOMAIN a_palettes : palette_map[a_palettes[i]] = i - 1
        /\ AssignedScbs = 0..(Len(a_palettes) - 1)

\* three different rows processed and the list full: the last row found its
\* palette recorded already or met the ceiling
C28_Witness ==
    /\ apc = "rows" /\ y = HEIGHT
    /\ strategy = "median-cut"
    /\ Len(a_palettes) = NUM_PALETTES
    /\ image[1] # image[2] /\ image[3] # image[1] /\ image[3] # image[2]

\* ============================================== identical neighbouring rows
\* the loop body of optimized_quantize run on two more rows, both equal to
\* scanline, from the loop state reached: the pairs of SCB values they get
TwoEqualRows(scanline) ==
    UNION {{<<r1.idx, r2.idx>> :
                r2 \in OptimizedRowBody(scanline, y + 1, r1.idx, r1.pals, r1.pmap,
                                        error_threshold)} :
            r1 \in OptimizedRowBody(scanline, y, IF y > 0 THEN a_scb[y] ELSE 0,
                                    a_palettes, palette_map, error_threshold)}

\* C29: in optimized_quantize, whatever the error threshold, a row with the
\* same pixels as the row above gets the same SCB value: this holds of the rows
\* processed so far and of any two equal rows the loop body would process
\* next, also when the palette list is full.
C29_NoSeamBetweenIdenticalRows ==
    (strategy = "optimized" /\ apc = "rows") =>
        /\ \A r \in 2..y : image[r] = image[r - 1] => a_scb[r] = a_scb[r - 1]
        /\ \A scanline \in RowFamily : \A p \in TwoEqualRows(scanline) : p[1] = p[2]

\* the list is full, the last two rows processed are equal and, with the
\* threshold at 0, were not covered exactly by their palette; some further row
\* would take the ceiling fallback twice and land on another palette than the
\* previous row's
C29_Witness ==
    /\ strategy = "optimized" /\ apc = "rows" /\ y = HEIGHT
    /\ error_threshold = 0
    /\ Len(a_palettes) = NUM_PALETTES
    /\ image[HEIGHT] = image[HEIGHT - 1]
    /\ _calculate_palette_error(image[HEIGHT], a_palettes[a_scb[HEIGHT] + 1]) > 0
    /\ \E scanline \in RowFamily :
        /\ \A res \in median_cut_quantize(scanline, NUM_COLORS) :
                res.palette \notin DOMAIN palette_map
        /\ _calculate_palette_error(scanline, a_palettes[a_scb[HEIGHT] + 1]) > 0
        /\ \A p \in TwoEqualRows(scanline) : p[1] # a_scb[HEIGHT]
        /\ _calculate_palette_error(scanline,
                a_palettes[_find_best_existing_palette(scanline, a_palettes) + 1]) > 0

====
